---- MODULE Spec2Model ----
(***************************************************************************)
(* Model of the formal-verification suite runner                           *)
(* (formal/run_verification_suite.py) together with the part of the        *)
(* configuration generator (formal/generate_instruction_tests.py) that the *)
(* runner drives.                                                          *)
(*                                                                         *)
(* The coordinating thread is modelled by its position pc; the worker      *)
(* threads of the ThreadPoolExecutor are modelled by the futures they      *)
(* execute (fut), the external `sby` processes by proc.  What an external  *)
(* process does (exit code, output, whether it outlives the deadline,      *)
(* whether it can be started at all) is the environment's choice, recorded *)
(* in beh when the process is launched.                                    *)
(***************************************************************************)
EXTENDS Integers, Sequences, FiniteSets, TLC

(***************************************************************************)
(* Bounds of the model.                                                    *)
(***************************************************************************)
\* largest --workers value tried (besides "not given", 0 and a negative one)
MaxWorkers == 2
\* largest multiprocessing.cpu_count() tried
MaxCpu == 2

(***************************************************************************)
(* Python values.                                                          *)
(***************************************************************************)
\* Optional[T]: None is the empty tuple, a present value x is <<x>>.
None == <<>>
Some(x) == <<x>>

\* Python's `a or b` on two strings: a unless it is empty.
StrOr(a, b) == IF a # "" THEN a ELSE b

Min(a, b) == IF a <= b THEN a ELSE b

Range(s) == {s[i] : i \in DOMAIN s}

\* All orders in which the elements of the finite set S can be enumerated.
Enumerations(S) ==
    {s \in [1..Cardinality(S) -> S] : \A x \in S : \E i \in DOMAIN s : s[i] = x}

(***************************************************************************)
(* The catalog (generate_instruction_tests.py).  The three tables are cut  *)
(* down to their first entries: two instructions, one system check, one    *)
(* integration check.                                                      *)
(***************************************************************************)
RV32I_INSTRUCTIONS == {"add", "sub"}
SYSTEM_CHECKS == {"reg"}
INTEGRATION_CHECKS == {"rv32i"}

\* lines 12-63, 66-78 and 81-85: the keys of the three tables, all of them.
InstructionIds ==
    <<"add", "sub", "addi", "lui", "auipc", "and", "or", "xor", "andi", "ori",
      "xori", "sll", "srl", "sra", "slli", "srli", "srai", "slt", "sltu", "slti",
      "sltiu", "lb", "lh", "lw", "lbu", "lhu", "sb", "sh", "sw", "beq", "bne",
      "blt", "bge", "bltu", "bgeu", "jal", "jalr">>
SystemCheckIds ==
    <<"reg", "pc_fwd", "pc_bwd", "dmem", "imem", "insn", "ill", "hang", "causal",
      "unique", "liveness">>
IntegrationCheckIds == <<"rv32i", "cover", "fault">>

\* run_verification_suite: test_categories, in dictionary order.
CategoryOrder == <<"instructions", "system", "integration">>
Categories == Range(CategoryOrder)

\* test_categories[category]: the sub-directory of a category.
Subdir(category) ==
    CASE category = "instructions" -> "instructions"
      [] category = "system" -> "system_checks"
      [] category = "integration" -> "integration"

Subdirs == {Subdir(c) : c \in Categories}

\* The check identifiers the generator writes into a sub-directory.
Catalog(subdir) ==
    CASE subdir = "instructions" -> RV32I_INSTRUCTIONS
      [] subdir = "system_checks" -> SYSTEM_CHECKS
      [] subdir = "integration" -> INTEGRATION_CHECKS

\* A test file formal_dir/<dir>/verify_<id>.sby.
TestFile(subdir, id) == [dir |-> subdir, id |-> id]
\* Path.stem of a test file.
Stem(f) == "verify_" \o f.id

\* Whether a file name is that of a configuration file, verify_<id>.sby.
IsArtifactName(name) ==
    /\ Len(name) > Len("verify_") + Len(".sby")
    /\ SubSeq(name, 1, Len("verify_")) = "verify_"
    /\ SubSeq(name, Len(name) - Len(".sby") + 1, Len(name)) = ".sby"

\* What files[subdir] holds for a file of the given name.
ArtifactId(name) == SubSeq(name, Len("verify_") + 1, Len(name) - Len(".sby"))

\* The texts c of a directory after the file named id got the text.
WithText(c, id, text) ==
    [i \in DOMAIN c \cup {id} |-> IF i = id THEN text ELSE c[i]]

(***************************************************************************)
(* The text of a configuration file (generate_instruction_tests.py, the    *)
(* three create_*_config functions), as its sequence of lines.  The list   *)
(* of design files, the same in every template, is cut down to two of its  *)
(* files, and the synthesis passes to the first.                           *)
(***************************************************************************)
\* str.upper() on the identifiers of the catalog.
Upper(id) ==
    CASE id = "add" -> "ADD"
      [] id = "sub" -> "SUB"
      [] id = "addi" -> "ADDI"
      [] id = "reg" -> "REG"
      [] id = "rv32i" -> "RV32I"

\* lines 93, 196 and 297: the depth written by the template of a category.
InstructionDepth == 20
SystemDepth == 30
IntegrationDepth == 50

\* Mutant of DepthOf: the system checks get the depth of the integration
\* tests.
DepthOfSystemAsIntegration(subdir) ==
    CASE subdir = "instructions" -> InstructionDepth
      [] subdir = "system_checks" -> IntegrationDepth
      [] subdir = "integration" -> IntegrationDepth

DepthOf(subdir) ==
    CASE subdir = "instructions" -> InstructionDepth
      [] subdir = "system_checks" -> SystemDepth
      [] subdir = "integration" -> IntegrationDepth

Root == "/Users/lazybanana/github/synapse32/"
DesignFiles == <<"rtl/top.v", "rtl/pipeline_stages/IF_ID.v">>

\* The defines of a read_verilog line for a design file; in the instruction
\* template the line of IF_ID.v (line 125) has no NRET define.
Defines(subdir, id, file) ==
    "-DFORMAL"
    \o (IF subdir = "instructions" /\ file = "rtl/pipeline_stages/IF_ID.v"
        THEN "" ELSE " -DRISCV_FORMAL_NRET=1")
    \o " -DRISCV_FORMAL_ILEN=32 -DRISCV_FORMAL_XLEN=32"
    \o (IF subdir = "instructions"
        THEN " -DRISCV_FORMAL_INSN_MODEL=rvfi_insn_" \o id ELSE "")
    \o " -DRISCV_FORMAL_CHANNEL_IDX=0"

\* The first comment line of the [script] section.
ScriptHeader(subdir, id) ==
    CASE subdir = "instructions" ->
           "# --- Design files with instruction-specific defines ---"
      [] subdir = "system_checks" ->
           "# --- Design files for " \o Upper(id) \o " verification ---"
      [] subdir = "integration" ->
           "# --- Complete ISA verification for " \o Upper(id) \o " ---"

\* The comment line above the riscv-formal checks.
ChecksHeader(subdir, id) ==
    CASE subdir = "instructions" ->
           "# riscv-formal checks for " \o Upper(id) \o " instruction"
      [] subdir = "system_checks" ->
           "# riscv-formal checks for " \o Upper(id) \o " verification"
      [] subdir = "integration" -> "# Complete ISA verification"

\* The riscv-formal files read after rvfi_macros.vh.
CheckFiles(subdir, id) ==
    CASE subdir = "instructions" ->
           <<"riscv-formal/insns/insn_" \o id \o ".v",
             "riscv-formal/checks/rvfi_insn_check.sv">>
      [] subdir = "system_checks" ->
           <<"riscv-formal/checks/rvfi_" \o id \o "_check.sv">>
      [] subdir = "integration" ->
           <<"riscv-formal/insns/isa_" \o id \o ".v">>

\* Mutant of FilesSection: the riscv-formal files are not listed.
FilesSectionDesignOnly(subdir, id) ==
    [k \in DOMAIN DesignFiles |-> Root \o DesignFiles[k]]

\* lines 151-181, 253-282 and 354-383: the lines of the [files] section, a
\* list of its own in each template.
FilesSection(subdir, id) ==
    [k \in DOMAIN DesignFiles |-> Root \o DesignFiles[k]]
    \o <<Root \o "riscv-formal/checks/rvfi_macros.vh">>
    \o [k \in DOMAIN CheckFiles(subdir, id) |-> Root \o CheckFiles(subdir, id)[k]]

\* config_content: the text written for the entry id of a category.
Render(subdir, id) ==
    LET Sv(file) == "read_verilog -sv -formal " \o Defines(subdir, id, "")
                    \o " " \o Root \o file
        sv_files == <<"riscv-formal/checks/rvfi_macros.vh">>
                    \o CheckFiles(subdir, id)
    IN  <<"[options]", "mode prove", "expect pass",
          "depth " \o ToString(DepthOf(subdir)), "wait on",
          "[engines]", "smtbmc boolector",
          "[script]", ScriptHeader(subdir, id)>>
        \o [k \in DOMAIN DesignFiles |->
               "read_verilog " \o Defines(subdir, id, DesignFiles[k])
               \o " " \o Root \o DesignFiles[k]]
        \o <<ChecksHeader(subdir, id)>>
        \o [k \in DOMAIN sv_files |-> Sv(sv_files[k])]
        \o <<"# Synthesis passes", "hierarchy -top top">>
        \o <<"[files]">>
        \o FilesSection(subdir, id)

\* The text of every file of fs as the generator writes it.
Rendered(fs) == [s \in DOMAIN fs |-> [id \in fs[s] |-> Render(s, id)]]

(***************************************************************************)
(* External processes.                                                     *)
(*   kind "exit":     the process exits by itself before the deadline,     *)
(*   kind "slow":     it is still running when the deadline elapses        *)
(*                    (returncode is what it would have reported),         *)
(*   kind "nolaunch": it cannot be started (subprocess.run raises).        *)
(***************************************************************************)
Beh(kind, rc, out, err, logs, dur) ==
    [kind |-> kind, returncode |-> rc, stdout |-> out, stderr |-> err,
     logs |-> logs, duration |-> dur]

NoBeh == Beh("none", 0, "", "", <<>>, 0)

\* What the jobs of a suite run may do.
Behaviours ==
    { Beh("exit", 0, "ok", "", <<"engine_0/logfile.txt.log">>, 1),
      Beh("exit", 1, "out", "", <<>>, 2),
      Beh("slow", 1, "", "", <<>>, 3),
      Beh("nolaunch", 0, "", "", <<>>, 0) }

\* SIGKILL: returncode of a process killed by Popen.kill().
KilledReturnCode == -9

Statuses == {"PASS", "FAIL", "TIMEOUT", "ERROR"}

\* TestResult (dataclass).
TestResult(test_name, category, status, duration, log_file, error_message) ==
    [test_name |-> test_name, category |-> category, status |-> status,
     duration |-> duration, log_file |-> log_file,
     error_message |-> error_message]

\* Message of the exception raised when the tool cannot be started.
LaunchErrorMsg == "[Errno 2] No such file or directory: 'sby'"
TimeoutMsg(t) == "Test timed out after " \o ToString(t) \o " seconds"

\* Mutant of RunOutcome: the deadline ends the wait without an exception,
\* leaving the exit code of the killed process to be classified.
RunOutcomeNoTimeoutExpired(p, b) ==
    IF p = "failed"
    THEN [exc |-> "Exception", returncode |-> 0,
          stdout |-> "", stderr |-> "", msg |-> LaunchErrorMsg]
    ELSE [exc |-> "none",
          returncode |-> IF p = "killed" THEN KilledReturnCode ELSE b.returncode,
          stdout |-> b.stdout, stderr |-> b.stderr, msg |-> ""]

\* What subprocess.run did for a process in state p with behaviour b:
\* it raised TimeoutExpired after killing the process, raised another
\* exception, or returned a CompletedProcess.
RunOutcome(p, b) ==
    IF p = "killed" /\ b.kind = "slow"
    THEN [exc |-> "TimeoutExpired", returncode |-> KilledReturnCode,
          stdout |-> "", stderr |-> "", msg |-> ""]
    ELSE IF p = "failed"
    THEN [exc |-> "Exception", returncode |-> 0,
          stdout |-> "", stderr |-> "", msg |-> LaunchErrorMsg]
    ELSE [exc |-> "none",
          returncode |-> IF p = "killed" THEN KilledReturnCode ELSE b.returncode,
          stdout |-> b.stdout, stderr |-> b.stderr, msg |-> ""]

\* str(test_file) and test_file.parent, relative to formal_dir.
PathStr(test_file) == test_file.dir \o "/" \o Stem(test_file) \o ".sby"
Parent(test_file) == test_file.dir

\* line 51: cmd.
Command(test_file) == <<"sby", "-f", PathStr(test_file)>>

\* Mutant of Cwd: the process is run in formal_dir.
CwdFormalDir(test_file) == "."

\* line 56: cwd.
Cwd(test_file) == Parent(test_file)

\* lines 54-60: the call of subprocess.run for a test file.
SubprocessRun(test_file) ==
    [cmd |-> Command(test_file), cwd |-> Cwd(test_file)]

\* run_single_test, lines 62-70: status and diagnostic of a completed process.
StatusOfReturnCode(returncode) == IF returncode = 0 THEN "PASS" ELSE "FAIL"

\* Mutant of ErrorMessageOf: a process that printed nothing leaves no
\* diagnostic.
ErrorMessageOfNoneWhenSilent(o) ==
    IF o.returncode = 0 \/ StrOr(o.stderr, o.stdout) = ""
    THEN None ELSE Some(StrOr(o.stderr, o.stdout))

\* Mutant of ErrorMessageOf: stdout is preferred to stderr.
ErrorMessageOfStdoutFirst(o) ==
    IF o.returncode = 0 THEN None ELSE Some(StrOr(o.stdout, o.stderr))

ErrorMessageOf(o) ==
    IF o.returncode = 0 THEN None ELSE Some(StrOr(o.stderr, o.stdout))

\* run_single_test, lines 72-78: the first log file found, if any.
LogFileOf(logs) == IF logs # <<>> THEN Some(logs[1]) ELSE None

\* run_single_test: the TestResult for test_file, given what subprocess.run
\* did (o), the log files present afterwards and the measured duration.
RunSingleTest(test_file, category, t, o, logs, dur) ==
    IF o.exc = "TimeoutExpired"
    THEN TestResult(Stem(test_file), category, "TIMEOUT", dur, None,
                    Some(TimeoutMsg(t)))
    ELSE IF o.exc = "Exception"
    THEN TestResult(Stem(test_file), category, "ERROR", dur, None, Some(o.msg))
    ELSE TestResult(Stem(test_file), category, StatusOfReturnCode(o.returncode),
                    dur, LogFileOf(logs), ErrorMessageOf(o))

(***************************************************************************)
(* State.                                                                  *)
(***************************************************************************)
VARIABLES
    pc,                 \* position of the coordinating thread
    formal_dir_exists,  \* main: formal_dir.exists()
    dirs,               \* the category sub-directories that exist
    files,              \* files[subdir]: ids of the verify_<id>.sby files in it
    contents,           \* contents[subdir][id]: the lines of verify_<id>.sby
    generate_only,      \* args.generate_only
    categories,         \* args.categories ({} is None)
    max_workers,        \* self.max_workers
    timeout,            \* self.timeout
    all_test_files,     \* run_verification_suite: list of <<test_file, category>>
    fut,                \* fut[i]: state of the future of the i-th submitted test
    fres,               \* fres[i]: the TestResult the i-th future holds, if any
    proc,               \* proc[i]: state of the external process of the i-th test
    beh,                \* beh[i]: what that process does
    launches,           \* launches[i]: how often subprocess.run was called for it
    calls,              \* calls[i]: the arguments of that call, if it was made
    yielded,            \* futures as_completed has handed out already
    results,            \* run_tests_parallel: results
    self_results,       \* self.results
    printed,            \* the lines printed so far (those that matter)
    summary,            \* the summary text produced, if any
    reports,            \* the documents written to verification_report.json
    success,            \* value returned by run_verification_suite, if any
    exit_code,          \* value returned by main, if any
    configs,            \* the generator's lists of the files it has written
    generated,          \* value returned by the generator's main, if any
    workers,            \* args.workers where the scenario fixes it, if it does
    cpu_count           \* multiprocessing.cpu_count(), likewise

pool_vars == <<fut, fres, proc, beh, launches, calls>>
disk_vars == <<formal_dir_exists, dirs, files, contents>>
arg_vars == <<generate_only, categories, max_workers, timeout>>
out_vars == <<printed, summary, reports, success, exit_code>>
env_vars == <<workers, cpu_count>>
vars == <<pc, disk_vars, arg_vars, all_test_files, pool_vars, yielded, results,
          self_results, out_vars, configs, generated, env_vars>>

Jobs == DOMAIN all_test_files

\* generate_instruction_tests.main, lines 411, 422 and 433: the three lists
\* of written files, empty.
NoConfigs == [s \in Subdirs |-> <<>>]

Line(kind, name, category, status) ==
    [kind |-> kind, name |-> name, category |-> category, status |-> status]

\* --timeout values tried (the default).
Timeouts == {300}
\* --workers values tried: 0 stands for "not given" (None) and for 0.
WorkerArgs == (-1)..MaxWorkers
CpuCounts == 1..MaxCpu

\* --categories values tried: not given, or some but not all categories
\* (naming all three selects what "not given" selects, line 259).
CategoryArgs == (SUBSET Categories) \ {Categories}

\* Every state of the formal directory before main runs.
DiskStates ==
    {d \in [exists : BOOLEAN, dirs : SUBSET Subdirs,
            files : [Subdirs -> SUBSET (RV32I_INSTRUCTIONS \cup SYSTEM_CHECKS
                                        \cup INTEGRATION_CHECKS)]] :
        /\ \A s \in Subdirs : d.files[s] \subseteq Catalog(s)
        /\ \A s \in Subdirs \ d.dirs : d.files[s] = {}
        /\ ~d.exists => d.dirs = {}}

Init ==
    /\ \E d \in DiskStates :
        /\ formal_dir_exists = d.exists
        /\ dirs = d.dirs
        /\ files = d.files
        /\ contents = Rendered(d.files)
    /\ pc = "main"
    /\ generate_only = FALSE
    /\ categories = {}
    /\ max_workers = 0
    /\ timeout = 300
    /\ all_test_files = <<>>
    /\ fut = <<>>
    /\ fres = <<>>
    /\ proc = <<>>
    /\ beh = <<>>
    /\ launches = <<>>
    /\ calls = <<>>
    /\ yielded = {}
    /\ results = <<>>
    /\ self_results = <<>>
    /\ printed = <<>>
    /\ summary = None
    /\ reports = <<>>
    /\ success = None
    /\ exit_code = None
    /\ configs = NoConfigs
    /\ generated = None
    /\ workers = None
    /\ cpu_count = None

(***************************************************************************)
(* main, lines 298-337: argument parsing, the directory check and the      *)
(* decision to generate.                                                   *)
(***************************************************************************)
\* Mutant of NeedsGeneration: only --generate-only makes main generate.
NeedsGenerationOnRequest(go) == go

\* main, line 321: whether the configurations are generated first.
NeedsGeneration(go) == "instructions" \notin dirs \/ go

Exit(code) ==
    /\ pc' = "exited"
    /\ exit_code' = Some(code)

MainStart ==
    /\ pc = "main"
    /\ \E go \in BOOLEAN, cats \in CategoryArgs :
        /\ generate_only' = go
        /\ categories' = cats
        /\ IF ~formal_dir_exists
           THEN /\ Exit(1)
                /\ printed' = Append(printed, Line("error", "no formal dir", "", ""))
           ELSE /\ pc' = IF NeedsGeneration(go) THEN "generate" ELSE "construct"
                /\ UNCHANGED <<exit_code, printed>>
    /\ UNCHANGED <<configs, generated, disk_vars, env_vars, max_workers, timeout, all_test_files, pool_vars,
                   yielded, results, self_results, summary, reports, success>>

\* generate_instruction_tests.main: the three directories are created and
\* every catalog entry is written, except the entries in failed, whose
\* error is caught and printed.
GeneratedDirs == dirs \cup Subdirs
GeneratedFiles(failed) ==
    [s \in Subdirs |-> files[s] \cup (Catalog(s) \ failed)]
GeneratedContents(failed) ==
    [s \in Subdirs |-> [id \in GeneratedFiles(failed)[s] |->
        IF id \in Catalog(s) \ failed THEN Render(s, id) ELSE contents[s][id]]]

\* Mutant of PcAfterGenerationError: the error is printed and main goes on
\* to the suite.
PcAfterGenerationErrorGoOn == "construct"

\* main, lines 332-337: both except clauses print the error and return 1.
PcAfterGenerationError == "exited"

\* Mutant of ReturnsAfterGeneration: main always goes on to the suite.
ReturnsAfterGenerationNever(go) == FALSE

\* main, lines 330-331: with --generate-only main returns once the
\* configurations are generated.
ReturnsAfterGeneration(go) == go

\* main, lines 322-337.  The generator is imported from formal_dir when it
\* is there (here) and otherwise from the runner's own directory, where it
\* then writes; it may be missing altogether (ImportError) or raise.
Generate ==
    /\ pc = "generate"
    /\ \/ /\ \E here \in BOOLEAN,
               failed \in SUBSET (RV32I_INSTRUCTIONS \cup SYSTEM_CHECKS
                                  \cup INTEGRATION_CHECKS) :
               IF here
               THEN /\ dirs' = GeneratedDirs
                    /\ files' = GeneratedFiles(failed)
                    /\ contents' = GeneratedContents(failed)
               ELSE UNCHANGED <<dirs, files, contents>>
          /\ IF ReturnsAfterGeneration(generate_only)
             THEN Exit(0)
             ELSE pc' = "construct" /\ UNCHANGED exit_code
          /\ UNCHANGED printed
       \/ /\ \E e \in {"ImportError", "Exception"} :
               printed' = Append(printed, Line("error", e, "", ""))
          /\ pc' = PcAfterGenerationError
          /\ exit_code' = IF PcAfterGenerationError = "exited" THEN Some(1) ELSE exit_code
          /\ UNCHANGED <<dirs, files, contents>>
    /\ UNCHANGED <<configs, generated, formal_dir_exists, env_vars, arg_vars, all_test_files, pool_vars,
                   yielded, results, self_results, summary, reports, success>>

\* Mutant of MaxWorkersOf: the default is the cpu count, without a cap.
MaxWorkersOfUncapped(w, cpu) == IF w # 0 THEN w ELSE cpu

\* VerificationSuiteRunner.__init__, line 33.
MaxWorkersOf(w, cpu) ==
    IF w # 0 THEN w ELSE Min(cpu, 8)

\* main, lines 340-343, and run_verification_suite up to line 248.
Construct ==
    /\ pc = "construct"
    /\ \E w \in (IF workers = None THEN WorkerArgs ELSE {workers[1]}),
          cpu \in (IF cpu_count = None THEN CpuCounts ELSE {cpu_count[1]}),
          t \in Timeouts :
        /\ max_workers' = MaxWorkersOf(w, cpu)
        /\ timeout' = t
    /\ self_results' = <<>>
    /\ pc' = "discover"
    /\ UNCHANGED <<configs, generated, disk_vars, env_vars, generate_only, categories, all_test_files,
                   pool_vars, yielded, results, out_vars>>

(***************************************************************************)
(* run_verification_suite, lines 250-277: discovery.                       *)
(***************************************************************************)
\* find_test_files: the *.sby files of a directory, none when it is missing.
FindTestFiles(subdir) == IF subdir \in dirs THEN files[subdir] ELSE {}

\* Mutant of TestCategories: the filter is ignored.
TestCategoriesAll(cats) == Categories

\* lines 251-259: the categories that are scanned.
TestCategories(cats) == IF cats # {} THEN Categories \cap cats ELSE Categories

\* Mutant of Tagged: every file found is taken for an instruction test.
TaggedAsInstructions(category, ids) ==
    [i \in DOMAIN ids |-> <<TestFile(Subdir(category), ids[i]), "instructions">>]

\* line 266: the files found for one category, in the order glob gave them.
Tagged(category, ids) ==
    [i \in DOMAIN ids |-> <<TestFile(Subdir(category), ids[i]), category>>]

\* lines 262-266: all_test_files, category by category.
AllTestFiles(selected, order) ==
    LET Part(c) == IF c \in selected THEN Tagged(c, order[c]) ELSE <<>>
    IN  Part(CategoryOrder[1]) \o Part(CategoryOrder[2]) \o Part(CategoryOrder[3])

\* Mutant of NoTestFiles: the empty list is not rejected.
NoTestFilesNever(found) == FALSE

\* line 268: `if not all_test_files`.
NoTestFiles(found) == found = <<>>

Discover ==
    /\ pc = "discover"
    /\ \E order \in [Categories -> UNION {Enumerations(files[s]) : s \in Subdirs}] :
        /\ \A c \in Categories : order[c] \in Enumerations(FindTestFiles(Subdir(c)))
        /\ LET found == AllTestFiles(TestCategories(categories), order)
           IN  IF NoTestFiles(found)
               THEN /\ printed' = Append(printed,
                                    Line("error", "No test files found!", "", ""))
                    /\ success' = Some(FALSE)
                    /\ pc' = "suite_returned"
               ELSE /\ pc' = "pool"
                    /\ UNCHANGED <<printed, success>>
        /\ all_test_files' = AllTestFiles(TestCategories(categories), order)
    /\ UNCHANGED <<configs, generated, disk_vars, env_vars, arg_vars, pool_vars, yielded, results, self_results,
                   summary, reports, exit_code>>

(***************************************************************************)
(* run_tests_parallel, lines 109-140, and the worker threads.              *)
(***************************************************************************)
\* Mutant of PoolSize: one worker thread per submitted test.
PoolSizePerTest == IF max_workers <= 0 THEN max_workers ELSE Len(all_test_files)

\* line 113: the number of worker threads of the executor.
PoolSize == max_workers

\* Mutant of RunTimeout: subprocess.run is called without a timeout.
RunTimeoutNone == None

\* line 59: the timeout handed to subprocess.run.
RunTimeout == Some(timeout)

\* Mutant of AppendResult: the result of a job that could not be run is
\* dropped (as when its exception reached the handler of line 137).
AppendResultDropError(rs, r) == IF r.status = "ERROR" THEN rs ELSE Append(rs, r)

\* line 125: results.append(result).
AppendResult(rs, r) == Append(rs, r)

\* Mutant of KillSet: the deadline of one job takes every running process
\* down.
KillSetAll(i) == DOMAIN all_test_files

\* subprocess.run on TimeoutExpired: the processes it kills.
KillSet(i) == {i}

\* Mutant of FutureAfterCall: a job that did not pass is queued again.
FutureAfterCallRetry(r) == IF r.status = "PASS" THEN "finished" ELSE "pending"

\* A future whose call has returned is done, whatever the result it holds:
\* nothing puts it back into the queue.
FutureAfterCall(r) == "finished"

\* Futures a worker thread is executing.
Busy == {i \in DOMAIN fut : fut[i] = "running"}

\* ThreadPoolExecutor(max_workers=...): raises ValueError unless positive.
CreatePool ==
    /\ pc = "pool"
    /\ IF PoolSize <= 0
       THEN /\ Exit(1)
            /\ printed' = Append(printed, Line("traceback", "ValueError", "", ""))
       ELSE /\ pc' = IF all_test_files = <<>> THEN "collect" ELSE "submit"
            /\ UNCHANGED <<exit_code, printed>>
    /\ UNCHANGED <<configs, generated, disk_vars, env_vars, arg_vars, all_test_files, pool_vars, yielded,
                   results, self_results, summary, reports, success>>

\* lines 115-118: executor.submit for the next test file.
Submit ==
    /\ pc = "submit"
    /\ fut' = Append(fut, "pending")
    /\ fres' = Append(fres, None)
    /\ proc' = Append(proc, "none")
    /\ beh' = Append(beh, NoBeh)
    /\ launches' = Append(launches, 0)
    /\ calls' = Append(calls, None)
    /\ pc' = IF Len(fut) + 1 = Len(all_test_files) THEN "collect" ELSE "submit"
    /\ UNCHANGED <<configs, generated, disk_vars, env_vars, arg_vars, all_test_files, yielded, results,
                   self_results, out_vars>>

\* A worker thread takes the oldest queued future and calls run_single_test,
\* which calls subprocess.run (lines 51-60): the process is started, or
\* cannot be.
WorkerStart(i) ==
    /\ i \in DOMAIN fut
    /\ fut[i] = "pending"
    /\ \A j \in 1..(i - 1) : fut[j] # "pending"
    /\ Cardinality(Busy) < PoolSize
    /\ \E b \in Behaviours :
        /\ beh' = [beh EXCEPT ![i] = b]
        /\ proc' = [proc EXCEPT ![i] = IF b.kind = "nolaunch" THEN "failed"
                                       ELSE "running"]
    /\ fut' = [fut EXCEPT ![i] = "running"]
    /\ launches' = [launches EXCEPT ![i] = @ + 1]
    /\ calls' = [calls EXCEPT ![i] = Some(SubprocessRun(all_test_files[i][1]))]
    /\ UNCHANGED <<configs, generated, pc, disk_vars, env_vars, arg_vars, all_test_files, fres, yielded,
                   results, self_results, out_vars>>

\* The external process exits by itself.
ProcExit(i) ==
    /\ i \in DOMAIN proc
    /\ proc[i] = "running"
    /\ beh[i].kind = "exit"
    /\ proc' = [proc EXCEPT ![i] = "exited"]
    /\ UNCHANGED <<configs, generated, pc, disk_vars, env_vars, arg_vars, all_test_files, fut, fres, beh,
                   launches, calls, yielded, results, self_results, out_vars>>

\* The deadline of subprocess.run elapses: the process is killed and waited
\* for, then TimeoutExpired is raised.
Deadline(i) ==
    /\ i \in DOMAIN proc
    /\ proc[i] = "running"
    /\ beh[i].kind = "slow"
    /\ RunTimeout # None
    /\ proc' = [j \in DOMAIN proc |->
                  IF j \in KillSet(i) /\ proc[j] = "running" THEN "killed"
                  ELSE proc[j]]
    /\ UNCHANGED <<configs, generated, pc, disk_vars, env_vars, arg_vars, all_test_files, fut, fres, beh,
                   launches, calls, yielded, results, self_results, out_vars>>

\* Mutant of ProcessGone: subprocess.run does not wait for the process.
ProcessGoneOrRunning(p) == TRUE

\* lines 54-60: subprocess.run returns when the process has exited, raises
\* TimeoutExpired when it has killed it and waited for it, and raises at
\* once when the process could not be started.
ProcessGone(p) == p \in {"exited", "killed", "failed"}

\* Mutant of ResultsAfterWorker: the worker appends its result to the list
\* itself.
ResultsAfterWorkerAppend(rs, r) == Append(rs, r)

\* run_single_test, lines 44-107: the worker builds a TestResult and returns
\* it; it touches neither the list of run_tests_parallel nor self.results.
ResultsAfterWorker(rs, r) == rs

\* run_single_test returns (lines 62-107) and the future gets its result.
WorkerReturn(i) ==
    /\ i \in DOMAIN fut
    /\ fut[i] = "running"
    /\ ProcessGone(proc[i])
    /\ fres' = [fres EXCEPT ![i] =
                  Some(RunSingleTest(all_test_files[i][1], all_test_files[i][2],
                                     timeout, RunOutcome(proc[i], beh[i]),
                                     beh[i].logs, beh[i].duration))]
    /\ fut' = [fut EXCEPT ![i] = FutureAfterCall(fres'[i][1])]
    /\ results' = ResultsAfterWorker(results, fres'[i][1])
    /\ UNCHANGED <<configs, generated, pc, disk_vars, env_vars, arg_vars, all_test_files, proc, beh, launches,
                   calls, yielded, self_results, out_vars>>

\* Mutant of PcAfterResult: a result that is an ERROR ends the collection
\* and the run goes straight to its verdict.
PcAfterResultAbortOnError(r) == IF r.status = "ERROR" THEN "judge" ELSE "collect"

\* lines 121-135: whatever the status of the result, the loop over the
\* completed futures goes on.
PcAfterResult(r) == "collect"

\* Mutant of ProgressLine: every job is shown as passed.
ProgressLinePassed(result, category) ==
    Line("progress", result.test_name, category, "PASS")

\* lines 127-135: the progress line of a completed job.
ProgressLine(result, category) ==
    Line("progress", result.test_name, category, result.status)

\* lines 121-135: as_completed hands out a finished future; its result is
\* appended and a progress line printed.
Collect(i) ==
    /\ pc = "collect"
    /\ i \in DOMAIN fut \ yielded
    /\ fut[i] = "finished"
    /\ yielded' = yielded \cup {i}
    /\ results' = AppendResult(results, fres[i][1])
    /\ printed' = Append(printed, ProgressLine(fres[i][1], all_test_files[i][2]))
    /\ pc' = PcAfterResult(fres[i][1])
    /\ UNCHANGED <<configs, generated, disk_vars, env_vars, arg_vars, all_test_files, pool_vars,
                   self_results, summary, reports, success, exit_code>>

\* line 140 and line 282: every future was handed out, the executor is shut
\* down, the results are returned and stored.
ReturnResults ==
    /\ pc = "collect"
    /\ yielded = DOMAIN fut
    /\ self_results' = results
    /\ pc' = "summary"
    /\ UNCHANGED <<configs, generated, disk_vars, env_vars, arg_vars, all_test_files, pool_vars, yielded,
                   results, out_vars>>

(***************************************************************************)
(* Reporting, lines 142-237 and 284-296.                                   *)
(***************************************************************************)
\* Mutant of CountStatus: every result that did not pass is counted as a
\* FAIL, besides being counted under its own status.
CountStatusNonPassAsFail(rs, status) ==
    IF status = "FAIL"
    THEN Cardinality({i \in DOMAIN rs : rs[i].status # "PASS"})
    ELSE Cardinality({i \in DOMAIN rs : rs[i].status = status})

\* lines 148-158: status_counts[status] after the loop over the results.
CountStatus(rs, status) == Cardinality({i \in DOMAIN rs : rs[i].status = status})

\* lines 154-158: the categories of the results, in the order in which the
\* dictionary category_stats got them as keys (first appearance).
RECURSIVE CategoriesOf(_)
CategoriesOf(rs) ==
    IF rs = <<>> THEN <<>>
    ELSE LET front == CategoriesOf(SubSeq(rs, 1, Len(rs) - 1))
             c == rs[Len(rs)].category
         IN  IF c \in Range(front) THEN front ELSE Append(front, c)

\* A percentage as "{:.1f}" prints it, in tenths of a percent.
Percent(n, d) == (2000 * n + d) \div (2 * d)

\* Mutant of CategoryStats: every result that is not FAIL counts as passed.
CategoryStatsNotFail(rs, c) ==
    LET stats == [s \in Statuses |->
                     Cardinality({i \in DOMAIN rs : /\ rs[i].category = c
                                                    /\ rs[i].status = s})]
        total == Cardinality({i \in DOMAIN rs : rs[i].category = c})
        passed == Cardinality({i \in DOMAIN rs : /\ rs[i].category = c
                                                  /\ rs[i].status # "FAIL"})
    IN  [category |-> c, stats |-> stats, passed |-> passed, total |-> total,
         rate |-> Percent(passed, total)]

\* lines 154-158 and 184-187: the four counts of a category (stats) and its
\* line of the category breakdown; total_cat is sum(stats.values()).
CategoryStats(rs, c) ==
    LET stats == [s \in Statuses |->
                     Cardinality({i \in DOMAIN rs : /\ rs[i].category = c
                                                    /\ rs[i].status = s})]
        total_cat == stats["PASS"] + stats["FAIL"] + stats["TIMEOUT"] + stats["ERROR"]
    IN  [category |-> c, stats |-> stats, passed |-> stats["PASS"],
         total |-> total_cat, rate |-> Percent(stats["PASS"], total_cat)]

\* Mutant of TotalDuration: the duration of the last result alone.
TotalDurationLast(rs) == IF rs = <<>> THEN 0 ELSE rs[Len(rs)].duration

\* line 161: sum(r.duration for r in self.results).
RECURSIVE TotalDuration(_)
TotalDuration(rs) ==
    IF rs = <<>> THEN 0 ELSE rs[1].duration + TotalDuration(Tail(rs))

\* line 198: the number of characters of a diagnostic the summary shows.
ErrorWidth == 100

\* Mutant of TruncateError: a diagnostic of exactly ErrorWidth characters
\* is cut as well.
TruncateErrorAtWidth(msg) ==
    IF Len(msg) >= 100 THEN SubSeq(msg, 1, 100) \o "..." ELSE msg

\* line 198: the diagnostic as the summary shows it.
TruncateError(msg) ==
    IF Len(msg) > ErrorWidth THEN SubSeq(msg, 1, ErrorWidth) \o "..." ELSE msg

\* lines 191-200: the entries under "Failed Tests:", one per result that
\* is not PASS, in the order of the results; the "Error:" line is printed
\* only for a diagnostic that is neither None nor empty.
FailedTests(rs) ==
    LET NotPassed(r) == r.status # "PASS"
        failed_tests == SelectSeq(rs, NotPassed)
    IN  [k \in DOMAIN failed_tests |->
            LET r == failed_tests[k]
            IN  [category |-> r.category, test_name |-> r.test_name,
                 status |-> r.status,
                 error |-> IF r.error_message # None /\ r.error_message[1] # ""
                           THEN Some(TruncateError(r.error_message[1]))
                           ELSE None]]

\* line 203: min(self.results, key=duration) is the first result, in list
\* order, whose duration no other result undercuts.
Fastest(rs) ==
    rs[CHOOSE i \in DOMAIN rs :
          /\ \A j \in DOMAIN rs : rs[i].duration <= rs[j].duration
          /\ \A j \in 1..(i - 1) : rs[j].duration # rs[i].duration]

\* line 204: max(self.results, key=duration), likewise the first one.
Slowest(rs) ==
    rs[CHOOSE i \in DOMAIN rs :
          /\ \A j \in DOMAIN rs : rs[i].duration >= rs[j].duration
          /\ \A j \in 1..(i - 1) : rs[j].duration # rs[i].duration]

\* generate_summary_report: what the text says.
GenerateSummaryReport(rs) ==
    IF rs = <<>>
    THEN [text |-> "No test results available.", total |-> 0,
          status_counts |-> [s \in Statuses |-> 0]]
    ELSE [text |-> "RISC-V CPU Formal Verification Summary Report",
          total |-> Len(rs),
          status_counts |-> [s \in Statuses |-> CountStatus(rs, s)],
          total_duration |-> TotalDuration(rs),
          category_stats |-> [k \in DOMAIN CategoriesOf(rs) |->
                                 CategoryStats(rs, CategoriesOf(rs)[k])],
          failed_tests |-> FailedTests(rs),
          fastest |-> [test_name |-> Fastest(rs).test_name,
                       duration |-> Fastest(rs).duration],
          slowest |-> [test_name |-> Slowest(rs).test_name,
                       duration |-> Slowest(rs).duration]]

\* Mutant of ReportData: only the results that did not pass are stored.
ReportDataFailuresOnly(rs) ==
    LET NotPassed(r) == r.status # "PASS"
    IN  [summary |-> [total_tests |-> Len(rs), cpu_time |-> TotalDuration(rs)],
         results |-> SelectSeq(rs, NotPassed)]

\* save_detailed_report, lines 216-232: the document written (wall_time and
\* timestamp, which are clock readings, are left out).
ReportData(rs) ==
    [summary |-> [total_tests |-> Len(rs), cpu_time |-> TotalDuration(rs)],
     results |-> [k \in DOMAIN rs |->
                    [test_name |-> rs[k].test_name,
                     category |-> rs[k].category,
                     status |-> rs[k].status,
                     duration |-> rs[k].duration,
                     log_file |-> rs[k].log_file,
                     error_message |-> rs[k].error_message]]]

\* Mutant of AllPassed: only FAIL results count against the suite.
AllPassedNoFail(rs) == CountStatus(rs, "FAIL") = 0

\* lines 295-296.
AllPassed(rs) == CountStatus(rs, "PASS") = Len(rs)

\* lines 284-287.
\* Wall times measured at line 162: 0 (start_time is not set) and a positive
\* one (in run_verification_suite, where line 241 has set it and the jobs
\* have run).
WallTimes == {0, 2}

\* Python's n / d as "{:.2f}" prints it, in hundredths; it raises
\* ZeroDivisionError when d is 0.
PyDivide(n, d) ==
    IF d = 0
    THEN [kind |-> "ZeroDivisionError", hundredths |-> 0]
    ELSE [kind |-> "ratio", hundredths |-> (200 * n + d) \div (2 * d)]

\* Mutant of Speedup: the ratio is computed whatever the wall time.
SpeedupUnguarded(total_duration, wall_time) == PyDivide(total_duration, wall_time)

\* line 170: the speedup line of the summary.
Speedup(total_duration, wall_time) ==
    IF wall_time > 0 THEN PyDivide(total_duration, wall_time)
    ELSE [kind |-> "N/A", hundredths |-> 0]

\* generate_summary_report with the wall time it measures; nothing is
\* computed for an empty list of results (lines 144-145).
SummaryAt(rs, wall_time) ==
    IF rs = <<>> THEN GenerateSummaryReport(rs)
    ELSE [wall_time |-> wall_time,
          speedup |-> Speedup(TotalDuration(rs), wall_time),
          average |-> PyDivide(TotalDuration(rs), Len(rs))]
         @@ GenerateSummaryReport(rs)

\* Mutant of ResultsAfterSummary: the summary turns every TIMEOUT result
\* into a FAIL in place.
ResultsAfterSummaryTimeoutAsFail(rs) ==
    [k \in DOMAIN rs |->
        [rs[k] EXCEPT !.status = IF @ = "TIMEOUT" THEN "FAIL" ELSE @]]

\* generate_summary_report, lines 142-212: self.results is read only; the
\* truncated diagnostic is a new string (line 198).
ResultsAfterSummary(rs) == rs

GenerateSummary ==
    /\ pc = "summary"
    /\ \E wall_time \in WallTimes \ {0} :
          summary' = Some(SummaryAt(self_results, wall_time))
    /\ printed' = Append(printed, Line("summary", "", "", ""))
    /\ self_results' = ResultsAfterSummary(self_results)
    /\ pc' = "save"
    /\ UNCHANGED <<configs, generated, disk_vars, env_vars, arg_vars, all_test_files, pool_vars, yielded,
                   results, reports, success, exit_code>>

\* Mutant of WriteReport: the document is written a second time.
WriteReportTwice(docs, doc) == Append(Append(docs, doc), doc)

\* lines 234-235: open(output_file, 'w') and json.dump, once.
WriteReport(docs, doc) == Append(docs, doc)

\* Mutant of ReportLocation: the report is written over an artifact.
ReportLocationAmongArtifacts == [dir |-> "instructions", name |-> "verify_add.sby"]

\* line 290: the report file, formal_dir / "verification_report.json".
ReportLocation == [dir |-> ".", name |-> "verification_report.json"]

\* The artifact files after open(output_file, 'w') at loc: none is touched
\* unless loc is the place of a .sby file in a category directory.
FilesAfterWrite(loc) ==
    IF loc.dir \in dirs /\ IsArtifactName(loc.name)
    THEN [files EXCEPT ![loc.dir] = @ \cup {ArtifactId(loc.name)}]
    ELSE files
ContentsAfterWrite(loc, text) ==
    IF loc.dir \in dirs /\ IsArtifactName(loc.name)
    THEN [contents EXCEPT ![loc.dir] = WithText(@, ArtifactId(loc.name), text)]
    ELSE contents

\* lines 289-292; writing the file is taken to succeed.
SaveReport ==
    /\ pc = "save"
    /\ reports' = WriteReport(reports, ReportData(self_results))
    /\ files' = FilesAfterWrite(ReportLocation)
    /\ contents' = ContentsAfterWrite(ReportLocation, <<"{", "}">>)
    /\ pc' = "judge"
    /\ UNCHANGED <<configs, generated, formal_dir_exists, dirs, env_vars, arg_vars, all_test_files, pool_vars, yielded,
                   results, self_results, printed, summary, success, exit_code>>

\* lines 294-296.
ReturnSuite ==
    /\ pc = "judge"
    /\ success' = Some(AllPassed(self_results))
    /\ pc' = "suite_returned"
    /\ UNCHANGED <<configs, generated, disk_vars, env_vars, arg_vars, all_test_files, pool_vars, yielded,
                   results, self_results, printed, summary, reports, exit_code>>

\* Mutant of ExitCodeOf: the result of the suite is ignored.
ExitCodeOfZero(ok) == 0

\* main, line 347.
ExitCodeOf(ok) == IF ok THEN 0 ELSE 1

MainReturn ==
    /\ pc = "suite_returned"
    /\ Exit(ExitCodeOf(success[1]))
    /\ UNCHANGED <<configs, generated, disk_vars, env_vars, arg_vars, all_test_files, pool_vars, yielded,
                   results, self_results, printed, summary, reports, success>>

Next ==
    \/ MainStart
    \/ Generate
    \/ Construct
    \/ Discover
    \/ CreatePool
    \/ Submit
    \/ \E i \in DOMAIN fut : WorkerStart(i)
    \/ \E i \in DOMAIN fut : ProcExit(i)
    \/ \E i \in DOMAIN fut : Deadline(i)
    \/ \E i \in DOMAIN fut : WorkerReturn(i)
    \/ \E i \in DOMAIN fut : Collect(i)
    \/ ReturnResults
    \/ GenerateSummary
    \/ SaveReport
    \/ ReturnSuite
    \/ MainReturn

Spec == Init /\ [][Next]_vars

\* The formal directory with the instruction and system tests generated and
\* an empty integration directory.
FairInit ==
    /\ Init
    /\ formal_dir_exists
    /\ dirs = Subdirs
    /\ files = [s \in Subdirs |->
                  IF s = "integration" THEN {} ELSE Catalog(s)]

\* The operating system schedules every thread and process: as long as the
\* coordinating thread, a worker or a process can take a step, one is taken.
FairSpec == FairInit /\ [][Next]_vars /\ WF_vars(Next)

(***************************************************************************)
(* run_single_test on its own: one job that a worker has just started,     *)
(* with every combination of exit code, captured output, log files and     *)
(* timeout.                                                                *)
(***************************************************************************)
ReturnCodes == {0, 1, -11}

SingleBehaviours ==
    {Beh("exit", rc, out, err, logs, 1) :
        rc \in ReturnCodes, out \in {"", "out"}, err \in {"", "err"},
        logs \in {<<>>, <<"a.log">>, <<"b.log", "a.log">>}}
    \cup {Beh("slow", rc, "", "", <<"a.log">>, 2) : rc \in ReturnCodes}
    \cup {Beh("nolaunch", 0, "", "", <<>>, 0)}

SingleInit ==
    /\ formal_dir_exists = TRUE
    /\ dirs = Subdirs
    /\ files = [s \in Subdirs |-> Catalog(s)]
    /\ contents = Rendered(files)
    /\ pc = "collect"
    /\ generate_only = FALSE
    /\ categories = {}
    /\ max_workers = 1
    /\ timeout \in {1, 300}
    /\ \E c \in Categories : \E id \in Catalog(Subdir(c)) :
        all_test_files = <<<<TestFile(Subdir(c), id), c>>>>
    /\ fut = <<"running">>
    /\ fres = <<None>>
    /\ \E b \in SingleBehaviours :
        /\ beh = <<b>>
        /\ proc = <<IF b.kind = "nolaunch" THEN "failed" ELSE "running">>
    /\ launches = <<1>>
    /\ calls = <<Some(SubprocessRun(all_test_files[1][1]))>>
    /\ yielded = {}
    /\ results = <<>>
    /\ self_results = <<>>
    /\ printed = <<>>
    /\ summary = None
    /\ reports = <<>>
    /\ success = None
    /\ exit_code = None
    /\ configs = NoConfigs
    /\ generated = None
    /\ workers = None
    /\ cpu_count = None

SingleNext ==
    \/ \E i \in DOMAIN fut : ProcExit(i)
    \/ \E i \in DOMAIN fut : Deadline(i)
    \/ \E i \in DOMAIN fut : WorkerReturn(i)

SingleSpec == SingleInit /\ [][SingleNext]_vars

(***************************************************************************)
(* A suite run over three instruction tests with two workers and a timeout *)
(* of one second, from the point where main has constructed the runner.    *)
(***************************************************************************)
\* The first three entries of the instruction table.
ScenarioFiles == {"add", "sub", "addi"}

ScenarioInit ==
    /\ formal_dir_exists = TRUE
    /\ dirs = {"instructions"}
    /\ files = [s \in Subdirs |-> IF s = "instructions" THEN ScenarioFiles ELSE {}]
    /\ contents = Rendered(files)
    /\ pc = "discover"
    /\ generate_only = FALSE
    /\ categories \in {{}, {"instructions"}}
    /\ max_workers = 2
    /\ timeout = 1
    /\ all_test_files = <<>>
    /\ fut = <<>>
    /\ fres = <<>>
    /\ proc = <<>>
    /\ beh = <<>>
    /\ launches = <<>>
    /\ calls = <<>>
    /\ yielded = {}
    /\ results = <<>>
    /\ self_results = <<>>
    /\ printed = <<>>
    /\ summary = None
    /\ reports = <<>>
    /\ success = None
    /\ exit_code = None
    /\ configs = NoConfigs
    /\ generated = None
    /\ workers = None
    /\ cpu_count = None

ScenarioNext ==
    \/ Discover
    \/ CreatePool
    \/ Submit
    \/ \E i \in DOMAIN fut : WorkerStart(i)
    \/ \E i \in DOMAIN fut : ProcExit(i)
    \/ \E i \in DOMAIN fut : Deadline(i)
    \/ \E i \in DOMAIN fut : WorkerReturn(i)
    \/ \E i \in DOMAIN fut : Collect(i)
    \/ ReturnResults
    \/ GenerateSummary
    \/ SaveReport
    \/ ReturnSuite
    \/ MainReturn

ScenarioSpec == ScenarioInit /\ [][ScenarioNext]_vars

(***************************************************************************)
(* The worker bound: runs of two instruction jobs from the construction of *)
(* the runner on, for given --workers values and cpu counts, among them    *)
(* values at and above the cap of the default.                             *)
(***************************************************************************)
WorkerOverrides == WorkerArgs \cup {8, 9}
WorkerCpuCounts == CpuCounts \cup {8, 9}

WorkerInit ==
    /\ formal_dir_exists = TRUE
    /\ dirs = {"instructions"}
    /\ files = [s \in Subdirs |-> IF s = "instructions" THEN RV32I_INSTRUCTIONS ELSE {}]
    /\ contents = Rendered(files)
    /\ pc = "construct"
    /\ generate_only = FALSE
    /\ categories = {}
    /\ workers \in {Some(w) : w \in WorkerOverrides}
    /\ cpu_count \in {Some(c) : c \in WorkerCpuCounts}
    /\ max_workers = 0
    /\ timeout = 300
    /\ all_test_files = <<>>
    /\ fut = <<>>
    /\ fres = <<>>
    /\ proc = <<>>
    /\ beh = <<>>
    /\ launches = <<>>
    /\ calls = <<>>
    /\ yielded = {}
    /\ results = <<>>
    /\ self_results = <<>>
    /\ printed = <<>>
    /\ summary = None
    /\ reports = <<>>
    /\ success = None
    /\ exit_code = None
    /\ configs = NoConfigs
    /\ generated = None

WorkerNext ==
    \/ Construct
    \/ Discover
    \/ CreatePool
    \/ Submit
    \/ \E i \in DOMAIN fut : WorkerStart(i)
    \/ \E i \in DOMAIN fut : ProcExit(i)
    \/ \E i \in DOMAIN fut : Deadline(i)
    \/ \E i \in DOMAIN fut : WorkerReturn(i)
    \/ \E i \in DOMAIN fut : Collect(i)
    \/ ReturnResults
    \/ GenerateSummary
    \/ SaveReport
    \/ ReturnSuite
    \/ MainReturn

WorkerSpec == WorkerInit /\ [][WorkerNext]_vars

(***************************************************************************)
(* generate_instruction_tests.main on its own, one catalog entry at a      *)
(* time (Generate above is the whole call seen from the runner).  dirs and *)
(* files are the generator's own directory; files[subdir] holds the names  *)
(* of the files in it without the prefix verify_ and the suffix .sby.      *)
(***************************************************************************)
\* Mutant of GenOrder: the loop over the instructions stops after the first.
GenOrderFirstInstruction ==
    <<<<"instructions", "add">>,
      <<"system_checks", "reg">>, <<"integration", "rv32i">>>>

\* The three tables in dictionary order, as the loops of main go through
\* them: <<subdir, entry>>.
GenOrder ==
    <<<<"instructions", "add">>, <<"instructions", "sub">>,
      <<"system_checks", "reg">>, <<"integration", "rv32i">>>>

\* Mutant of ConfigFileName: the entry is left out of the file name.
ConfigFileNameNoId(id) == "verify" \o ".sby"

\* lines 184, 285 and 386: the name of the file written for an entry.
ConfigFileName(id) == "verify_" \o id \o ".sby"

\* A file that does not hold what the generator writes: edited by hand, or
\* left by an earlier version of the generator.
StaleText == <<"[options]", "mode bmc">>

\* What a write that raised may leave of the text: nothing, or its start.
CutShort(text) == {<<>>, SubSeq(text, 1, 4)}

\* Mutant of WriteFile: the file is opened for appending.
WriteFileAppend(old, text) == old \o text

\* lines 185-186, 286-287 and 387-388: open(config_file, 'w') and write: the
\* text replaces what the file held (old).
WriteFile(old, text) == text

\* line 450: a Python bool as a value with its type; a list has items.
PyBool(b) == [type |-> "bool", truth |-> b, items |-> <<>>]

\* Mutant of PcAfterError: the first write that raises ends the run.
PcAfterErrorAbort == "gen_aborted"

\* lines 418-419, 429-430 and 440-441: the except clause prints the error
\* and the loop goes on with the next entry.
PcAfterError == "gen_entries"

\* The entries main has dealt with: one line is printed for each.
GenDone ==
    LET OfEntry(l) == l.kind \in {"gen_pass", "gen_error"}
    IN  Len(SelectSeq(printed, OfEntry))

GenInit ==
    /\ \E d \in DiskStates :
        /\ d.exists
        /\ formal_dir_exists = d.exists
        /\ dirs = d.dirs
        /\ files = d.files
        /\ \E stale \in SUBSET UNION {d.files[s] : s \in Subdirs} :
            contents = [s \in Subdirs |-> [id \in d.files[s] |->
                           IF id \in stale THEN StaleText ELSE Render(s, id)]]
    /\ pc = "gen_main"
    /\ generate_only = FALSE
    /\ categories = {}
    /\ max_workers = 0
    /\ timeout = 300
    /\ all_test_files = <<>>
    /\ fut = <<>>
    /\ fres = <<>>
    /\ proc = <<>>
    /\ beh = <<>>
    /\ launches = <<>>
    /\ calls = <<>>
    /\ yielded = {}
    /\ results = <<>>
    /\ self_results = <<>>
    /\ printed = <<>>
    /\ summary = None
    /\ reports = <<>>
    /\ success = None
    /\ exit_code = None
    /\ configs = NoConfigs
    /\ generated = None
    /\ workers = None
    /\ cpu_count = None

\* lines 402-405: the three directories are created unless they exist.
GenMkdir ==
    /\ pc = "gen_main"
    /\ dirs' = dirs \cup Subdirs
    /\ pc' = "gen_entries"
    /\ UNCHANGED <<formal_dir_exists, env_vars, files, contents, arg_vars, all_test_files,
                   pool_vars, yielded, results, self_results, out_vars, configs,
                   generated>>

\* lines 412-441: the next entry.  Its file is written, appended to the
\* list of its table and reported; or writing raises, which is caught and
\* reported, the file being left as it was, or created or cut short by the
\* failed write.
GenEntry ==
    /\ pc = "gen_entries"
    /\ GenDone < Len(GenOrder)
    /\ LET subdir == GenOrder[GenDone + 1][1]
           id == GenOrder[GenDone + 1][2]
           config_file == ConfigFileName(id)
           config_content == Render(subdir, id)
           written == [files EXCEPT ![subdir] = @ \cup {ArtifactId(config_file)}]
           old == IF ArtifactId(config_file) \in files[subdir]
                  THEN contents[subdir][ArtifactId(config_file)] ELSE <<>>
           Holding(text) ==
               [contents EXCEPT ![subdir] =
                   WithText(@, ArtifactId(config_file), text)]
       IN  \/ /\ files' = written
              /\ contents' = Holding(WriteFile(old, config_content))
              /\ configs' = [configs EXCEPT ![subdir] = Append(@, config_file)]
              /\ printed' = Append(printed, Line("gen_pass", id, subdir, "PASS"))
              /\ UNCHANGED pc
           \/ /\ \/ UNCHANGED <<files, contents>>
                 \/ \E text \in CutShort(config_content) :
                       /\ files' = written
                       /\ contents' = Holding(text)
              /\ printed' = Append(printed, Line("gen_error", id, subdir, "ERROR"))
              /\ pc' = PcAfterError
              /\ UNCHANGED configs
    /\ UNCHANGED <<formal_dir_exists, env_vars, dirs, arg_vars, all_test_files,
                   pool_vars, yielded, results, self_results, summary, reports,
                   success, exit_code, generated>>

\* lines 443-450: the totals are printed and main returns True.
GenReturn ==
    /\ pc = "gen_entries"
    /\ GenDone = Len(GenOrder)
    /\ printed' = Append(printed, Line("gen_total", "", "", ""))
    /\ generated' = Some(PyBool(TRUE))
    /\ pc' = "gen_returned"
    /\ UNCHANGED <<disk_vars, env_vars, arg_vars, all_test_files, pool_vars, yielded,
                   results, self_results, summary, reports, success, exit_code,
                   configs>>

\* lines 452-454: the generator is run again on the same directory.
GenAgain ==
    /\ pc \in {"gen_returned", "gen_idle", "gen_discovered"}
    /\ pc' = "gen_main"
    /\ printed' = <<>>
    /\ configs' = NoConfigs
    /\ generated' = None
    /\ all_test_files' = <<>>
    /\ UNCHANGED <<disk_vars, env_vars, arg_vars, pool_vars, yielded,
                   results, self_results, summary, reports, success, exit_code>>

\* run_verification_suite, lines 250-266, on the generator's directory as it
\* is before a run of the generator or after one has returned: discovery
\* over all three categories.
GenDiscover ==
    /\ pc \in {"gen_main", "gen_returned"}
    /\ \E order \in [Categories -> UNION {Enumerations(files[s]) : s \in Subdirs}] :
        /\ \A c \in Categories : order[c] \in Enumerations(FindTestFiles(Subdir(c)))
        /\ all_test_files' = AllTestFiles(TestCategories({}), order)
    /\ pc' = "gen_discovered"
    /\ UNCHANGED <<disk_vars, env_vars, arg_vars, pool_vars, yielded, results,
                   self_results, out_vars, configs, generated>>

\* Between two runs a configuration file is removed from its directory
\* (gen_idle: no run is in progress and the last one is no longer the
\* latest change to the directory).
GenDelete ==
    /\ pc \in {"gen_returned", "gen_idle"}
    /\ pc' = "gen_idle"
    /\ \E s \in Subdirs : \E id \in files[s] :
        /\ files' = [files EXCEPT ![s] = @ \ {id}]
        /\ contents' = [contents EXCEPT ![s] = [i \in DOMAIN @ \ {id} |-> @[i]]]
    /\ UNCHANGED <<formal_dir_exists, env_vars, dirs, arg_vars, all_test_files,
                   pool_vars, yielded, results, self_results, out_vars, configs,
                   generated>>

GenNext ==
    \/ GenMkdir
    \/ GenEntry
    \/ GenReturn
    \/ GenAgain
    \/ GenDelete
    \/ GenDiscover

GenSpec == GenInit /\ [][GenNext]_vars

(***************************************************************************)
(* Reporting on its own: the state in which as_completed has handed out    *)
(* the last future, for every completion order of up to three jobs whose   *)
(* processes differ in status, in duration (with ties) and in the length   *)
(* of the diagnostic they leave.                                           *)
(***************************************************************************)
RECURSIVE Rep(_, _)
\* The string s repeated n times.
Rep(s, n) == IF n = 0 THEN "" ELSE s \o Rep(s, n - 1)

AggBehaviours ==
    { Beh("exit", 0, "ok", "", <<"engine_0/logfile.txt.log">>, 1),
      Beh("exit", 1, "", Rep("e", ErrorWidth - 1), <<>>, 1),
      Beh("exit", 1, "", Rep("e", ErrorWidth), <<>>, 2),
      Beh("exit", 1, Rep("o", ErrorWidth + 1), "", <<>>, 2),
      Beh("exit", 1, "", "", <<>>, 3),
      Beh("slow", 0, "", "", <<>>, 3),
      Beh("nolaunch", 0, "", "", <<>>, 0) }

\* The state a process is left in by its behaviour.
ProcAfter(b) ==
    CASE b.kind = "exit" -> "exited"
      [] b.kind = "slow" -> "killed"
      [] b.kind = "nolaunch" -> "failed"

AggInit ==
    /\ formal_dir_exists = TRUE
    /\ dirs = Subdirs
    /\ files = [s \in Subdirs |-> Catalog(s)]
    /\ contents = Rendered(files)
    /\ pc = "collect"
    /\ generate_only = FALSE
    /\ categories \in CategoryArgs \ {{}}
    /\ max_workers = 2
    /\ timeout = 300
    /\ \E order \in [Categories -> UNION {Enumerations(files[s]) : s \in Subdirs}] :
        /\ \A c \in Categories : order[c] \in Enumerations(FindTestFiles(Subdir(c)))
        /\ all_test_files = AllTestFiles(TestCategories(categories), order)
    /\ beh \in [Jobs -> AggBehaviours]
    /\ proc = [i \in Jobs |-> ProcAfter(beh[i])]
    /\ fut = [i \in Jobs |-> "finished"]
    /\ fres = [i \in Jobs |->
                 Some(RunSingleTest(all_test_files[i][1], all_test_files[i][2],
                                    timeout, RunOutcome(proc[i], beh[i]),
                                    beh[i].logs, beh[i].duration))]
    /\ launches = [i \in Jobs |-> 1]
    /\ calls = [i \in Jobs |-> Some(SubprocessRun(all_test_files[i][1]))]
    /\ yielded = Jobs
    /\ \E done \in Enumerations(Jobs) :
        /\ results = [k \in Jobs |-> fres[done[k]][1]]
        /\ printed = [k \in Jobs |->
                        Line("progress", fres[done[k]][1].test_name,
                             all_test_files[done[k]][2], fres[done[k]][1].status)]
    /\ self_results = <<>>
    /\ summary = None
    /\ reports = <<>>
    /\ success = None
    /\ exit_code = None
    /\ configs = NoConfigs
    /\ generated = None
    /\ workers = None
    /\ cpu_count = None

AggNext ==
    \/ ReturnResults
    \/ GenerateSummary
    \/ SaveReport
    \/ ReturnSuite
    \/ MainReturn

AggSpec == AggInit /\ [][AggNext]_vars

(***************************************************************************)
(* generate_summary_report on its own: a call on a runner whose results    *)
(* are any list of up to two results of run_single_test, the empty one     *)
(* included, with start_time set or not.                                   *)
(***************************************************************************)
MaxResults == 2

SummaryResults ==
    {RunSingleTest(TestFile(Subdir(c), id), c, 300,
                   RunOutcome(ProcAfter(b), b), b.logs, b.duration) :
        c \in {"instructions", "system"}, id \in {"add", "reg"}, b \in Behaviours}

SummaryInit ==
    /\ formal_dir_exists = TRUE
    /\ dirs = Subdirs
    /\ files = [s \in Subdirs |-> Catalog(s)]
    /\ contents = Rendered(files)
    /\ pc = "summary_call"
    /\ generate_only = FALSE
    /\ categories = {}
    /\ max_workers = 1
    /\ timeout = 300
    /\ all_test_files = <<>>
    /\ fut = <<>>
    /\ fres = <<>>
    /\ proc = <<>>
    /\ beh = <<>>
    /\ launches = <<>>
    /\ calls = <<>>
    /\ yielded = {}
    /\ results = <<>>
    /\ self_results \in UNION {[1..n -> SummaryResults] : n \in 0..MaxResults}
    /\ printed = <<>>
    /\ summary = None
    /\ reports = <<>>
    /\ success = None
    /\ exit_code = None
    /\ configs = NoConfigs
    /\ generated = None
    /\ workers = None
    /\ cpu_count = None

\* A call of generate_summary_report.
SummaryCall ==
    /\ pc = "summary_call"
    /\ \E wall_time \in WallTimes :
          summary' = Some(SummaryAt(self_results, wall_time))
    /\ pc' = "summary_called"
    /\ UNCHANGED <<disk_vars, env_vars, arg_vars, all_test_files, pool_vars, yielded,
                   results, self_results, printed, reports, success, exit_code,
                   configs, generated>>

SummaryNext == SummaryCall

SummarySpec == SummaryInit /\ [][SummaryNext]_vars

(***************************************************************************)
(* Properties.                                                             *)
(***************************************************************************)
\* run_tests_parallel has returned its list.
RunReturned ==
    /\ pc \in {"summary", "save", "judge", "suite_returned", "exited"}
    /\ fut # <<>>

\* The results recorded for the i-th submitted test file.
ResultsOf(rs, i) ==
    {k \in DOMAIN rs : /\ rs[k].test_name = Stem(all_test_files[i][1])
                       /\ rs[k].category = all_test_files[i][2]}

\* C1: when run_tests_parallel has returned, the returned list holds exactly
\* one TestResult for every submitted test file and nothing else: its length
\* is the number of files submitted, whatever the order of completion.
C1_OneResultPerUnit ==
    RunReturned =>
        /\ Len(results) = Len(all_test_files)
        /\ \A i \in Jobs : Cardinality(ResultsOf(results, i)) = 1
        /\ self_results = results

\* C1 witness: three or more jobs, one of them not startable, collected in
\* an order other than the order of submission.
C1_Witness ==
    /\ RunReturned
    /\ Len(results) >= 3
    /\ \E k \in DOMAIN results : results[k].status = "ERROR"
    /\ results[1].test_name # Stem(all_test_files[1][1])

EveryResultPassed(rs) == \A k \in DOMAIN rs : rs[k].status = "PASS"

\* C2 as stated: run_verification_suite returns success exactly when every
\* collected TestResult has status PASS.
C2_SuccessIffEveryResultPassed ==
    success # None => (success[1] <=> EveryResultPassed(self_results))

\* C2 amended: run_verification_suite returns success exactly when at least
\* one TestResult was collected and every collected one has status PASS.
C2_SuccessIffSomeAndEveryResultPassed ==
    success # None =>
        (success[1] <=> (self_results # <<>> /\ EveryResultPassed(self_results)))

\* C2 witness: the suite failed on a single TIMEOUT in last position after
\* two or more PASS results.
C2_Witness ==
    /\ success = Some(FALSE)
    /\ Len(self_results) >= 3
    /\ self_results[Len(self_results)].status = "TIMEOUT"
    /\ \A k \in 1..(Len(self_results) - 1) : self_results[k].status = "PASS"

\* Discovery has run and found nothing.
ZeroDiscovered ==
    /\ pc \in {"suite_returned", "exited"}
    /\ success # None
    /\ all_test_files = <<>>

\* C3: when discovery finds no test file the suite prints an error and
\* returns failure (exit code 1) without starting a job, producing a summary
\* or writing a report; and the suite never returns success with no result.
C3_NoVacuousPass ==
    /\ ZeroDiscovered =>
        /\ success = Some(FALSE)
        /\ fut = <<>>
        /\ summary = None
        /\ reports = <<>>
        /\ printed # <<>> /\ printed[Len(printed)].kind = "error"
        /\ exit_code \in {None, Some(1)}
    /\ success = Some(TRUE) => self_results # <<>>
    /\ all_test_files = <<>> => fut = <<>> /\ summary = None /\ reports = <<>>

\* C3 witness: main has exited after a discovery that found nothing although
\* a category directory exists.
C3_Witness ==
    /\ ZeroDiscovered
    /\ pc = "exited"
    /\ dirs # {}

\* Every discovered job passed, and there is one.
AllJobsPassed ==
    /\ all_test_files # <<>>
    /\ \A i \in Jobs : \E k \in DOMAIN self_results :
        /\ k \in ResultsOf(self_results, i)
        /\ self_results[k].status = "PASS"

\* C4 as stated: whenever main has returned, the exit code is 0 if all jobs
\* passed and 1 in every other case.
C4_ExitZeroIffAllPassed ==
    pc = "exited" => exit_code = Some(IF AllJobsPassed THEN 0 ELSE 1)

\* C4 amended: whenever main has returned from an invocation without
\* --generate-only, the exit code is 0 if all jobs passed and 1 in every
\* other case, the case of no job discovered included.
C4_ExitZeroIffAllPassedUnlessGenerateOnly ==
    (pc = "exited" /\ ~generate_only) =>
        exit_code = Some(IF AllJobsPassed THEN 0 ELSE 1)

\* C4 witness: main returned 0 after two or more jobs, without
\* --generate-only.
C4_Witness ==
    /\ pc = "exited"
    /\ ~generate_only
    /\ exit_code = Some(0)
    /\ Len(self_results) >= 2

\* C5: the result of run_single_test has one of the four statuses, decided
\* by what became of the process: exit code 0 gives PASS, another exit code
\* FAIL with stderr (stdout when stderr is empty) as diagnostic, a process
\* that outlived the deadline TIMEOUT, a process that could not be started
\* ERROR.
C5_Classification ==
    \A i \in DOMAIN fut : fut[i] = "finished" =>
        LET r == fres[i][1]
            b == beh[i]
        IN  /\ r.status \in Statuses
            /\ proc[i] \in {"exited", "killed", "failed"}
            /\ (proc[i] = "exited" /\ b.returncode = 0) => r.status = "PASS"
            /\ (proc[i] = "exited" /\ b.returncode # 0) =>
                  /\ r.status = "FAIL"
                  /\ r.error_message =
                        Some(IF b.stderr = "" THEN b.stdout ELSE b.stderr)
            /\ proc[i] = "killed" => r.status = "TIMEOUT"
            /\ proc[i] = "failed" => r.status = "ERROR"

\* C5 witness: a job that failed with output on both stdout and stderr.
C5_Witness ==
    \E i \in DOMAIN fut :
        /\ fut[i] = "finished"
        /\ fres[i][1].status = "FAIL"
        /\ beh[i].stderr # ""
        /\ beh[i].stdout # ""
        /\ fres[i][1].error_message = Some(beh[i].stderr)

\* C6: a job whose process was still running when the deadline elapsed gets
\* status TIMEOUT, never FAIL, whatever exit code it would have reported or
\* reports once killed; and a TIMEOUT result exists only for a process that
\* has been killed and is no longer running.
C6_TimeoutNotFail ==
    \A i \in DOMAIN fut :
        /\ (fut[i] = "finished" /\ beh[i].kind = "slow") =>
              fres[i][1].status = "TIMEOUT"
        /\ (fres[i] # None /\ fres[i][1].status = "TIMEOUT") =>
              (proc[i] = "killed" /\ beh[i].kind = "slow")

\* C6 witness: a TIMEOUT result for a process that would have exited with
\* code 0 and whose kill is reported as a non-zero exit code.
C6_Witness ==
    \E i \in DOMAIN fut :
        /\ fut[i] = "finished"
        /\ fres[i][1].status = "TIMEOUT"
        /\ beh[i].returncode = 0
        /\ RunOutcome(proc[i], beh[i]).returncode # 0

RunningProcs == {i \in DOMAIN proc : proc[i] = "running"}

\* C7: never more than max_workers external processes run, nor are more
\* than max_workers calls of run_single_test in progress; and a queued job
\* is started only in a state where fewer than max_workers are in progress.
C7_WorkerBound ==
    /\ [](fut # <<>> => /\ Cardinality(RunningProcs) <= max_workers
                        /\ Cardinality(Busy) <= max_workers)
    /\ [][\A i \in DOMAIN fut :
            (fut[i] = "pending" /\ fut'[i] = "running") =>
                Cardinality(Busy) < max_workers]_vars

\* C7 witness: max_workers processes run while a submitted job waits in the
\* queue and an earlier one has already finished.
C7_Witness ==
    /\ fut # <<>>
    /\ Cardinality(RunningProcs) = max_workers
    /\ max_workers >= 2
    /\ \E i \in DOMAIN fut : fut[i] = "pending"
    /\ \E i \in DOMAIN fut : fut[i] = "finished"

\* C8: under fair scheduling, once the pool is in use every submitted job
\* gets a terminal status and run_tests_parallel returns, also when some
\* processes would never exit by themselves.
C8_EveryJobTerminates ==
    (pc = "submit") ~>
        (/\ pc = "summary"
         /\ \A i \in Jobs : /\ fut[i] = "finished"
                            /\ fres[i] # None
                            /\ fres[i][1].status \in Statuses
                            /\ proc[i] # "running")

\* C8 witness: while the first job hangs on its process, a later job has
\* finished and a third one is running.
C8_Witness ==
    /\ max_workers >= 2
    /\ Len(fut) >= 3
    /\ proc[1] = "running" /\ beh[1].kind = "slow"
    /\ fut[2] = "finished"
    /\ proc[3] = "running"

\* The status that the process of the i-th job alone calls for.
OwnStatus(i) ==
    CASE beh[i].kind = "nolaunch" -> "ERROR"
      [] beh[i].kind = "slow" -> "TIMEOUT"
      [] beh[i].kind = "exit" -> IF beh[i].returncode = 0 THEN "PASS" ELSE "FAIL"

\* C9: no job is killed, cancelled or skipped because of another job: only
\* a process that outlived its own deadline is killed, every result is the
\* one the job's own process calls for, and when run_tests_parallel returns
\* every submitted job was launched and has its result.
C9_FailOpen ==
    /\ \A i \in DOMAIN fut :
        /\ proc[i] = "killed" => beh[i].kind = "slow"
        /\ fut[i] = "finished" => fres[i][1].status = OwnStatus(i)
    /\ RunReturned =>
        \A i \in Jobs :
            /\ launches[i] = 1
            /\ \E k \in ResultsOf(results, i) : results[k].status = OwnStatus(i)

\* C9 witness: the first three results are a TIMEOUT, an ERROR and a FAIL,
\* and a job collected after them passed.
C9_Witness ==
    /\ RunReturned
    /\ Len(results) = 4
    /\ {results[1].status, results[2].status, results[3].status}
          = {"TIMEOUT", "ERROR", "FAIL"}
    /\ results[4].status = "PASS"

\* C10: subprocess.run is called at most once per submitted job, a finished
\* job is not in the queue again, and no test file is submitted twice.
C10_NoRetries ==
    /\ Len(fut) <= Len(all_test_files)
    /\ \A i \in DOMAIN fut :
        /\ launches[i] <= 1
        /\ fres[i] # None => fut[i] = "finished"
    /\ \A i, j \in Jobs : all_test_files[i] = all_test_files[j] => i = j

\* C10 witness: the suite has returned after a FAIL, a TIMEOUT and an ERROR,
\* each job launched once.
C10_Witness ==
    /\ pc = "suite_returned"
    /\ \A s \in {"FAIL", "TIMEOUT", "ERROR"} :
        \E k \in DOMAIN self_results : self_results[k].status = s
    /\ \A i \in Jobs : launches[i] = 1

\* C11: in the summary of a suite run the four status counts (PASS, FAIL,
\* TIMEOUT, ERROR) add up to the number of jobs submitted, and that number
\* is the reported "Total Tests".
C11_CountsSumToTotal ==
    summary # None =>
        LET s == summary[1]
        IN  /\ s.status_counts["PASS"] + s.status_counts["FAIL"]
                  + s.status_counts["TIMEOUT"] + s.status_counts["ERROR"]
                  = Len(fut)
            /\ Len(fut) = Len(all_test_files)
            /\ s.total = Len(fut)

\* C11 witness: a summary over four jobs in which each status was counted
\* once.
C11_Witness ==
    /\ summary # None
    /\ summary[1].total = 4
    /\ \A st \in Statuses : summary[1].status_counts[st] = 1

\* Of the three jobs one exited with code 0, one exited with code 1 and one
\* was still running at the deadline.
ScenarioABC ==
    /\ Len(beh) = 3
    /\ \E a, b, c \in DOMAIN beh :
        /\ {a, b, c} = DOMAIN beh
        /\ beh[a].kind = "exit" /\ beh[a].returncode = 0
        /\ beh[b].kind = "exit" /\ beh[b].returncode = 1
        /\ beh[c].kind = "slow"

\* C12: three instruction jobs, one exiting 0, one exiting 1 and one
\* running past the timeout, with two workers and a timeout of 1: whatever
\* the interleaving, the summary counts PASS 1, FAIL 1, TIMEOUT 1, ERROR 0,
\* shows 1 of 3 passed for the category instructions, and the suite fails.
C12_ScenarioReport ==
    (summary # None /\ ScenarioABC) =>
        /\ max_workers = 2 /\ timeout = 1
        /\ summary[1].total = 3
        /\ summary[1].status_counts =
              [st \in Statuses |-> IF st = "ERROR" THEN 0 ELSE 1]
        /\ summary[1].category_stats =
              <<[category |-> "instructions",
                 stats |-> [st \in Statuses |-> IF st = "ERROR" THEN 0 ELSE 1],
                 passed |-> 1, total |-> 3, rate |-> 333]>>
        /\ success \in {None, Some(FALSE)}
        /\ exit_code \in {None, Some(1)}
        /\ pc = "exited" => success = Some(FALSE) /\ exit_code = Some(1)

\* C12 witness: main has exited from the scenario; the job that timed out
\* was submitted first, yet its result was collected last.
C12_Witness ==
    /\ pc = "exited"
    /\ ScenarioABC
    /\ beh[1].kind = "slow"
    /\ self_results[3].status = "TIMEOUT"
    /\ self_results[1].status = "FAIL"

\* C13: the report is written at most once, and exactly once by the time
\* the suite has judged a run; it is written by the coordinating thread in
\* a step that no worker takes part in, and only when every submitted job
\* has its result and no process is queued or running.
C13_ReportOnceAfterAllJobs ==
    /\ [](/\ Len(reports) <= 1
          /\ reports # <<>> =>
                /\ Len(fut) = Len(all_test_files)
                /\ \A i \in DOMAIN fut : /\ fut[i] = "finished"
                                          /\ fres[i] # None
                                          /\ proc[i] \notin {"none", "running"}
          /\ (RunReturned /\ pc \in {"judge", "suite_returned", "exited"}) =>
                Len(reports) = 1)
    /\ [][reports' # reports =>
            /\ pc = "save" /\ pc' = "judge"
            /\ pool_vars' = pool_vars
            /\ \A i \in DOMAIN fut : fut[i] = "finished"
            /\ Len(fut) = Len(all_test_files)]_vars

\* C13 witness: the one report is on disk after a run of three or more
\* jobs, the first of which was the last to finish.
C13_Witness ==
    /\ Len(reports) = 1
    /\ Len(fut) >= 3
    /\ results[Len(results)].test_name = Stem(all_test_files[1][1])

\* The results rs in the order p.
Permuted(rs, p) == [k \in DOMAIN rs |-> rs[p[k]]]

\* The statistics of a summary: status counts, per-category pass counts
\* and rates, cumulative duration, fastest and slowest job.
Statistics(s) ==
    [status_counts |-> s.status_counts,
     category_stats |-> Range(s.category_stats),
     total_duration |-> s.total_duration,
     fastest |-> s.fastest,
     slowest |-> s.slowest]

\* C14 as stated: the summary computed from the results in any other order
\* has the same statistics (status counts, per-category pass counts and
\* rates, cumulative duration, fastest and slowest job) as the summary
\* produced, also when several jobs tie on duration.
C14_AggregatorOrderIndependent ==
    summary # None =>
        \A p \in Enumerations(DOMAIN self_results) :
            Statistics(GenerateSummaryReport(Permuted(self_results, p)))
                = Statistics(summary[1])

\* The entries of the failure list ft that name the result r.
EntriesOf(ft, r) ==
    {j \in DOMAIN ft : /\ ft[j].test_name = r.test_name
                        /\ ft[j].category = r.category}

\* C15: the failure list of the summary has exactly one entry for every
\* result that is not PASS and none for a PASS result; the entry shows the
\* diagnostic cut to its first 100 characters followed by "..." when it is
\* longer than 100 characters and unchanged otherwise (an empty diagnostic
\* shows as no line at all); the document written holds the diagnostic in
\* full, as the process left it.
C15_FailuresListed ==
    summary # None =>
        LET ft == summary[1].failed_tests
            rs == self_results
        IN  /\ Len(ft) = Cardinality({k \in DOMAIN rs : rs[k].status # "PASS"})
            /\ \A k \in DOMAIN rs :
                  IF rs[k].status = "PASS"
                  THEN EntriesOf(ft, rs[k]) = {}
                  ELSE /\ Cardinality(EntriesOf(ft, rs[k])) = 1
                       /\ \A j \in EntriesOf(ft, rs[k]) :
                            LET msg == rs[k].error_message[1]
                            IN  /\ ft[j].status = rs[k].status
                                /\ Len(msg) > 100 =>
                                      /\ ft[j].error[1] = SubSeq(msg, 1, 100) \o "..."
                                      /\ Len(ft[j].error[1]) = 103
                                /\ (Len(msg) <= 100 /\ msg # "") =>
                                      ft[j].error = Some(msg)
                                /\ msg = "" => ft[j].error = None
            /\ reports # <<>> =>
                  /\ \A k \in DOMAIN rs :
                        reports[1].results[k].error_message = rs[k].error_message
                  /\ \A i \in Jobs :
                        (beh[i].kind = "exit" /\ beh[i].returncode # 0) =>
                            \E k \in ResultsOf(reports[1].results, i) :
                                reports[1].results[k].error_message =
                                    Some(IF beh[i].stderr # "" THEN beh[i].stderr
                                         ELSE beh[i].stdout)

\* C15 witness: the report is written for a run with a PASS result and two
\* failures, one with a diagnostic of 101 characters, shown cut, and one
\* with a diagnostic of exactly 100 characters, shown whole.
C15_Witness ==
    /\ reports # <<>>
    /\ \E k \in DOMAIN self_results : self_results[k].status = "PASS"
    /\ \E j \in DOMAIN summary[1].failed_tests :
          /\ summary[1].failed_tests[j].error # None
          /\ Len(summary[1].failed_tests[j].error[1]) = 103
    /\ \E j \in DOMAIN summary[1].failed_tests :
          /\ summary[1].failed_tests[j].error # None
          /\ Len(summary[1].failed_tests[j].error[1]) = 100
    /\ \E k \in DOMAIN reports[1].results :
          /\ reports[1].results[k].error_message # None
          /\ Len(reports[1].results[k].error_message[1]) = 101

\* The fields of an entry of the results array of the document.
ResultFields ==
    {"test_name", "category", "status", "duration", "log_file", "error_message"}

\* What C16 says of a document d: summary.total_tests is the length of the
\* results array, which holds one entry with all six fields per job.
WellFormedReport(d) ==
    /\ d.summary.total_tests = Len(d.results)
    /\ Len(d.results) = Len(all_test_files)
    /\ \A k \in DOMAIN d.results : DOMAIN d.results[k] = ResultFields

\* C16 as stated: once the suite has returned, whatever the outcome (all
\* passed, some failed, no job discovered), one report document is written,
\* and it is well formed.
C16_ReportAlways ==
    success # None =>
        /\ Len(reports) = 1
        /\ WellFormedReport(reports[1])

\* C16 amended: once the suite has returned from a run of at least one job,
\* with all passed or some failed, one report document is written, and it
\* is well formed; when no job was discovered none is written.
C16_ReportWhenJobsRan ==
    /\ (success # None /\ all_test_files # <<>>) =>
          /\ Len(reports) = 1
          /\ WellFormedReport(reports[1])
    /\ (success # None /\ all_test_files = <<>>) => reports = <<>>
    /\ \A k \in DOMAIN reports : WellFormedReport(reports[k])

\* C16 witness: the suite has returned failure from a run of three or more
\* jobs, some passed and some not, and its document is written.
C16_Witness ==
    /\ success = Some(FALSE)
    /\ Len(reports) = 1
    /\ Len(reports[1].results) >= 3
    /\ \E k \in DOMAIN reports[1].results : reports[1].results[k].status = "PASS"
    /\ \E k \in DOMAIN reports[1].results : reports[1].results[k].status = "ERROR"

\* What C17 says of the process and the result of the i-th job, apart from
\* the argument list: the tool is sby, run in the directory of the test
\* file, and the job passes exactly when the process exits with code 0.
RunInOwnDirectory(i) ==
    LET test_file == all_test_files[i][1]
    IN  /\ calls[i][1].cmd[1] = "sby"
        /\ calls[i][1].cwd = test_file.dir
        /\ fut[i] = "finished" =>
              (fres[i][1].status = "PASS"
                  <=> (proc[i] = "exited" /\ beh[i].returncode = 0))

\* C17 as stated: every job is run as a process in the directory of its
\* test file, the path of the test file being the single argument after
\* the tool name, and succeeds exactly when the exit code is 0.
C17_PathSoleArgument ==
    \A i \in DOMAIN calls : calls[i] # None =>
        /\ RunInOwnDirectory(i)
        /\ Tail(calls[i][1].cmd) = <<PathStr(all_test_files[i][1])>>

\* C17 amended: every job is run as a process in the directory of its test
\* file, the arguments after the tool name being the option -f and then
\* the path of the test file, and succeeds exactly when the exit code is 0.
C17_ForceOptionThenPath ==
    \A i \in DOMAIN calls : calls[i] # None =>
        LET test_file == all_test_files[i][1]
        IN  /\ RunInOwnDirectory(i)
            /\ Tail(calls[i][1].cmd) =
                  <<"-f", test_file.dir \o "/verify_" \o test_file.id \o ".sby">>

\* C17 witness: a system check run in system_checks has failed and an
\* instruction test run in instructions has passed.
C17_Witness ==
    \E i, j \in DOMAIN calls :
        /\ fut[i] = "finished" /\ fut[j] = "finished"
        /\ calls[i][1].cwd = "system_checks" /\ fres[i][1].status = "FAIL"
        /\ calls[j][1].cwd = "instructions" /\ fres[j][1].status = "PASS"

\* The categories an invocation selects: those of --categories, all three
\* when the option is not given.
Selected == IF categories = {} THEN {"instructions", "system", "integration"}
            ELSE categories

\* The sub-directory in which the test files of a category are looked for.
LocationOf(c) ==
    CASE c = "instructions" -> "instructions"
      [] c = "system" -> "system_checks"
      [] c = "integration" -> "integration"

\* Discovery is over.
Discovered == pc \notin {"main", "generate", "construct", "discover"}
              /\ (pc = "exited" => success # None)

\* C18: the jobs scheduled are exactly the test files present in the
\* locations of the selected categories (all three without a filter), each
\* tagged with the category of its location; no file of another category
\* is launched or reported, and every result carries the category of the
\* location its test file was found in.
C18_OnlySelectedCategories ==
    Discovered =>
        /\ Range(all_test_files) =
              UNION {{<<[dir |-> LocationOf(c), id |-> id], c>> :
                        id \in files[LocationOf(c)]} : c \in Selected}
        /\ \A i \in DOMAIN calls :
              /\ all_test_files[i][2] \in Selected
              /\ calls[i] # None => calls[i][1].cwd = LocationOf(all_test_files[i][2])
        /\ \A k \in DOMAIN results :
              /\ results[k].category \in Selected
              /\ \E i \in Jobs :
                    /\ results[k].test_name = "verify_" \o all_test_files[i][1].id
                    /\ all_test_files[i][1].dir = LocationOf(results[k].category)
        /\ \A k \in DOMAIN reports : \A n \in DOMAIN reports[k].results :
              reports[k].results[n].category \in Selected

\* C18 witness: with --categories system integration and instruction tests
\* on disk, the two selected jobs have run and are reported.
C18_Witness ==
    /\ categories = {"system", "integration"}
    /\ files["instructions"] # {}
    /\ Len(reports) = 1
    /\ Len(reports[1].results) = 2

\* Some artifact of a selected category is absent: the location of the
\* category is missing or holds no artifact, or an artifact of the catalog
\* is not in it.
ArtifactsAbsent(cats) ==
    \E c \in (IF cats = {} THEN Categories ELSE cats) :
        \/ LocationOf(c) \notin dirs
        \/ files[LocationOf(c)] = {}
        \/ \E id \in Catalog(LocationOf(c)) : id \notin files[LocationOf(c)]

\* C19 as stated: main, once it has found the formal directory, goes on to
\* generate exactly when an artifact of a selected category is absent or
\* --generate-only is given.
C19_RegeneratesWhenArtifactsAbsent ==
    [][(pc = "main" /\ formal_dir_exists) =>
          (pc' = "generate" <=> (ArtifactsAbsent(categories') \/ generate_only'))]_vars

\* C19 amended: main, once it has found the formal directory, goes on to
\* generate exactly when the sub-directory instructions does not exist or
\* --generate-only is given; otherwise it constructs the runner at once;
\* and generation comes before discovery, no job having been submitted.
C19_RegeneratesWhenNoInstructionsDir ==
    /\ [][(pc = "main" /\ formal_dir_exists) =>
            /\ pc' = "generate" <=> ("instructions" \notin dirs \/ generate_only')
            /\ pc' # "generate" => pc' = "construct"]_vars
    /\ [](pc = "generate" => (all_test_files = <<>> /\ fut = <<>>))

\* C19 witness: main is about to generate, without --generate-only,
\* because instructions is missing while the other two locations hold
\* their artifacts.
C19_Witness ==
    /\ pc = "generate"
    /\ ~generate_only
    /\ "instructions" \notin dirs
    /\ files["system_checks"] # {} /\ files["integration"] # {}

\* The entries whose write raised.
GenFailed ==
    {<<printed[k].category, printed[k].name>> :
        k \in {n \in DOMAIN printed : printed[n].kind = "gen_error"}}

\* C20: when generation has gone through the catalog, every entry whose
\* write did not raise has exactly one artifact, named verify_<id>.sby, in
\* the location of its table, and the names written for one table are
\* pairwise distinct; when no write raised there are exactly as many
\* artifacts in each location as the table has entries.
C20_OneArtifactPerEntry ==
    pc = "gen_returned" =>
        \A s \in Subdirs :
            LET written == configs[s]
                entries == {id \in Catalog(s) : <<s, id>> \notin GenFailed}
            IN  /\ Len(written) = Cardinality(entries)
                /\ \A k, l \in DOMAIN written : written[k] = written[l] => k = l
                /\ Range(written) = {"verify_" \o id \o ".sby" : id \in entries}
                /\ entries \subseteq files[s]
                /\ GenFailed = {} =>
                      /\ Len(written) = Cardinality(Catalog(s))
                      /\ Cardinality(files[s]) = Cardinality(Catalog(s))

\* C20 witness: generation has gone through the catalog without an error
\* and both instruction artifacts are in place.
C20_Witness ==
    /\ pc = "gen_returned"
    /\ GenFailed = {}
    /\ Len(configs["instructions"]) = 2
    /\ files["instructions"] = {"add", "sub"}

\* The text the generator writes for an entry, whatever the file held.
TextOf(s, id) == WriteFile(<<>>, Render(s, id))

\* Every entry of the catalog has its file, holding the text the generator
\* writes for it.
FullyGenerated ==
    /\ dirs = Subdirs
    /\ \A s \in Subdirs : \A id \in Catalog(s) :
          id \in files[s] /\ contents[s][id] = TextOf(s, id)

\* The step is one of a generator run and no write raises in it.
GenStepWithoutError ==
    /\ pc \in {"gen_main", "gen_entries"}
    /\ \A k \in DOMAIN printed' : printed'[k].kind # "gen_error"

\* C21: a run of the generator in which no write raised leaves every entry
\* with its file and a text that depends only on the entry and its
\* category, whatever the directory held before; and no step of such a run
\* on a directory that a first run has fully generated changes a directory,
\* the set of files or a byte of a file.
C21_Idempotent ==
    /\ []((pc = "gen_returned" /\ GenFailed = {}) => FullyGenerated)
    /\ [][(FullyGenerated /\ GenStepWithoutError) =>
            (dirs' = dirs /\ files' = files /\ contents' = contents)]_vars

\* C21 witness: a run on a fully generated directory is past its second
\* entry without an error.
C21_Witness ==
    /\ FullyGenerated
    /\ pc = "gen_entries"
    /\ GenDone = 2
    /\ GenFailed = {}

\* The directory is fully generated but for the file of the entry id of s,
\* which is missing.
OnlyMissing(s, id) ==
    /\ dirs = Subdirs
    /\ id \in Catalog(s) /\ id \notin files[s]
    /\ \A t \in Subdirs : \A i \in Catalog(t) :
          <<t, i>> # <<s, id>> => (i \in files[t] /\ contents[t][i] = TextOf(t, i))

\* C22: from a fully generated directory with one file deleted, no step of
\* a generator run in which no write raises changes a byte of another file
\* or adds a file other than the deleted one, which comes back with the
\* text of its entry; and when such a run has returned the files are those
\* of the catalog, as before the deletion.
C22_DeletedArtifactRestored ==
    /\ [][\A s \in Subdirs : \A id \in Catalog(s) :
            (OnlyMissing(s, id) /\ GenStepWithoutError) =>
                /\ \A t \in Subdirs :
                      /\ files[t] \subseteq files'[t]
                      /\ files'[t] \ files[t] \subseteq (IF t = s THEN {id} ELSE {})
                      /\ \A i \in files[t] : contents'[t][i] = contents[t][i]
                /\ id \in files'[s] => contents'[s][id] = TextOf(s, id)]_vars
    /\ []((pc = "gen_returned" /\ GenFailed = {}) =>
            \A s \in Subdirs : files[s] = Catalog(s) /\ DOMAIN contents[s] = Catalog(s))

\* C22 witness: the file of sub is missing from an otherwise fully
\* generated directory, and a run without an error has rewritten add.
C22_Witness ==
    /\ OnlyMissing("instructions", "sub")
    /\ pc = "gen_entries"
    /\ GenDone = 1
    /\ GenFailed = {}

\* The step is one in which the write of the entry id of s raises.
GenErrorStep(s, id) ==
    /\ pc = "gen_entries"
    /\ Len(printed') = Len(printed) + 1
    /\ printed'[Len(printed')] = Line("gen_error", id, s, "ERROR")

\* A failure is confined to its entry: the step in which a write raises
\* leaves every other file as it was and the loop goes on; and when main has
\* returned, every entry has been dealt with, in the order of the catalog,
\* and every entry whose own write did not raise has its file with its text,
\* whichever other entries failed.
GenIsolated ==
    /\ [][\A s \in Subdirs : \A id \in Catalog(s) :
            GenErrorStep(s, id) =>
                /\ pc' = "gen_entries"
                /\ dirs' = dirs
                /\ \A t \in Subdirs :
                      /\ files[t] \subseteq files'[t]
                      /\ files'[t] \ files[t] \subseteq (IF t = s THEN {id} ELSE {})
                      /\ \A i \in files[t] :
                            <<t, i>> # <<s, id>> => contents'[t][i] = contents[t][i]]_vars
    /\ [](pc = "gen_returned" =>
            /\ GenDone = Len(GenOrder)
            /\ \A s \in Subdirs : \A id \in Catalog(s) :
                  <<s, id>> \notin GenFailed =>
                      (id \in files[s] /\ contents[s][id] = TextOf(s, id)))

\* The lines main has printed for the entries, one for each.
GenEntryLines ==
    LET OfEntry(l) == l.kind \in {"gen_pass", "gen_error"}
    IN  SelectSeq(printed, OfEntry)

\* C23 as stated: failures are confined to their entries and main returns a
\* list with one success or failure item for each entry, which names the
\* entries that failed.
C23_ReturnsPerEntryList ==
    pc = "gen_returned" =>
        /\ GenDone = Len(GenOrder)
        /\ generated # None
        /\ generated[1].type = "list"
        /\ Len(generated[1].items) = Len(GenOrder)
        /\ \A k \in DOMAIN generated[1].items :
              generated[1].items[k] =
                  [category |-> GenOrder[k][1], name |-> GenOrder[k][2],
                   ok |-> <<GenOrder[k][1], GenOrder[k][2]>> \notin GenFailed]

\* C23: a failure is confined to its entry and every other entry of the same
\* and of the later categories is still generated; main prints one line for
\* each entry, in the order of the catalog, which names the entry and says
\* whether its write raised; and main returns True whatever failed.
C23_IsolateAndContinue ==
    /\ GenIsolated
    /\ [](pc = "gen_returned" =>
            /\ Len(GenEntryLines) = Len(GenOrder)
            /\ \A k \in DOMAIN GenEntryLines :
                  /\ GenEntryLines[k].category = GenOrder[k][1]
                  /\ GenEntryLines[k].name = GenOrder[k][2]
                  /\ GenEntryLines[k].kind \in {"gen_pass", "gen_error"}
            /\ generated = Some(PyBool(TRUE)))

\* C23 witness: the write of the first entry raised and left no file, every
\* later entry of the same and of the later categories has its file, and
\* main has returned.
C23_Witness ==
    /\ pc = "gen_returned"
    /\ GenFailed = {<<"instructions", "add">>}
    /\ "add" \notin files["instructions"]
    /\ "sub" \in files["instructions"]
    /\ files["system_checks"] = Catalog("system_checks")
    /\ files["integration"] = Catalog("integration")

\* The depths a text sets: the numbers of its lines "depth <n>".
DepthsIn(text) ==
    {n \in 0..99 : \E k \in DOMAIN text : text[k] = "depth " \o ToString(n)}

\* C24: every file the generator has written sets exactly one depth, which
\* is 20 in the instruction location, 30 in the location of the system
\* checks and 50 in the integration location, whatever the entry: the
\* depth depends on the category only and 20 < 30 < 50.
C24_DepthByCategory ==
    pc = "gen_returned" =>
        /\ \A s \in Subdirs : \A id \in Catalog(s) :
              <<s, id>> \notin GenFailed =>
                  DepthsIn(contents[s][id]) =
                      (CASE s = "instructions" -> {20}
                         [] s = "system_checks" -> {30}
                         [] s = "integration" -> {50})
        /\ \A s, t \in Subdirs : \A i \in Catalog(s), j \in Catalog(t) :
              (<<s, i>> \notin GenFailed /\ <<t, j>> \notin GenFailed) =>
                  \A m \in DepthsIn(contents[s][i]), n \in DepthsIn(contents[t][j]) :
                      /\ s = t => m = n
                      /\ (s = "instructions" /\ t = "system_checks") => m < n
                      /\ (s = "system_checks" /\ t = "integration") => m < n

\* C24 witness: a run has written both instruction files, the system check
\* and the integration test over stale texts, and the two instruction files
\* set the same depth.
C24_Witness ==
    /\ pc = "gen_returned"
    /\ GenFailed = {}
    /\ DepthsIn(contents["instructions"]["add"]) = DepthsIn(contents["instructions"]["sub"])
    /\ DepthsIn(contents["system_checks"]["reg"]) # {}
    /\ DepthsIn(contents["integration"]["rv32i"]) # {}

\* main has exited with a failure and no job was ever submitted.
Aborted ==
    /\ pc = "exited"
    /\ exit_code = Some(1)
    /\ fut = <<>>

\* The generation step of main raised (lines 333-338).
GenerationRaised ==
    /\ printed # <<>>
    /\ printed[Len(printed)].kind = "error"
    /\ printed[Len(printed)].name \in {"ImportError", "Exception"}

\* Jobs were discovered but the worker bound is not positive, so that the
\* executor could not be created.
PoolRaised == all_test_files # <<>> /\ max_workers <= 0

\* Every submitted job has its result whatever its status, and the run went
\* on to its report and verdict.
RunContinued ==
    fut # <<>> =>
        /\ \A i \in DOMAIN fut : ResultsOf(self_results, i) # {}
        /\ Len(self_results) = Len(fut)
        /\ reports # <<>>
        /\ success # None

\* C25 as stated: the invocation ends in a failure without a job exactly
\* when the test location is missing or no job was discovered, and a
\* per-job error never ends it.
C25_AbortOnlyOnSuiteViolation ==
    pc = "exited" =>
        /\ Aborted <=> (~formal_dir_exists \/ ZeroDiscovered)
        /\ RunContinued

\* C25: the invocation ends in a failure without a job exactly when the
\* formal directory is missing, the generation step raised, no job was
\* discovered, or the worker bound is not positive; a per-job error never
\* ends it: every submitted job has its result and the run goes on to its
\* report and verdict.
C25_AbortCauses ==
    pc = "exited" =>
        /\ Aborted <=> \/ ~formal_dir_exists
                       \/ GenerationRaised
                       \/ ZeroDiscovered
                       \/ PoolRaised
        /\ RunContinued

\* C25 witness: a run in which a job could not be started and another
\* passed has gone on to its report and exited with a failure.
C25_Witness ==
    /\ pc = "exited"
    /\ exit_code = Some(1)
    /\ Len(self_results) = 2
    /\ \E k \in DOMAIN self_results : self_results[k].status = "ERROR"
    /\ \E k \in DOMAIN self_results : self_results[k].status = "PASS"
    /\ reports # <<>>

RECURSIVE SumUpTo(_, _)
\* f[1] + ... + f[n].
SumUpTo(f, n) == IF n = 0 THEN 0 ELSE f[n] + SumUpTo(f, n - 1)

\* The submitted jobs of a category.
JobsOf(c) == {i \in DOMAIN fut : all_test_files[i][2] = c}

\* C26: in the summary of a run, every category with a result has four
\* status counts that sum to the number of jobs of the category that were
\* submitted, which is the total of its line; its pass count is the number
\* of its results that are PASS; the pass counts of the categories sum to
\* the overall PASS count; and the cumulative duration is the sum of the
\* durations of the results the jobs returned.
C26_CategoryCountsAddUp ==
    (summary # None /\ self_results # <<>>) =>
        LET cs == summary[1].category_stats
        IN  /\ {cs[k].category : k \in DOMAIN cs}
                  = {self_results[k].category : k \in DOMAIN self_results}
            /\ \A k, l \in DOMAIN cs : cs[k].category = cs[l].category => k = l
            /\ \A k \in DOMAIN cs :
                  /\ SumUpTo([n \in 1..4 |->
                                 cs[k].stats[<<"PASS", "FAIL", "TIMEOUT", "ERROR">>[n]]], 4)
                        = Cardinality(JobsOf(cs[k].category))
                  /\ cs[k].total = Cardinality(JobsOf(cs[k].category))
                  /\ cs[k].passed
                        = Cardinality({i \in JobsOf(cs[k].category) :
                                          fres[i][1].status = "PASS"})
            /\ SumUpTo([k \in DOMAIN cs |-> cs[k].passed], Len(cs))
                  = summary[1].status_counts["PASS"]
            /\ summary[1].total_duration
                  = SumUpTo([i \in DOMAIN fres |-> fres[i][1].duration], Len(fres))

\* C26 witness: the summary of a run with results in two categories, not
\* all of them PASS, and with more than one duration.
C26_Witness ==
    /\ summary # None
    /\ Len(summary[1].category_stats) >= 2
    /\ \E k \in DOMAIN summary[1].category_stats :
          /\ summary[1].category_stats[k].total = 2
          /\ summary[1].category_stats[k].passed = 1
    /\ \E k, l \in DOMAIN self_results :
          self_results[k].duration # self_results[l].duration

\* The positions of the progress lines printed for the job i.
ProgressLinesOf(i) ==
    {k \in DOMAIN printed : /\ printed[k].kind = "progress"
                            /\ printed[k].name = Stem(all_test_files[i][1])
                            /\ printed[k].category = all_test_files[i][2]}

\* C27: a job has no progress line before its future is finished and
\* handed out and exactly one from then on, which shows the name, the
\* category and the status of the result of that job; every progress line
\* is the line of a submitted job; a progress line is only printed while
\* there is neither a summary nor a report, and when the summary is
\* produced every submitted job has its line.
C27_OneProgressLinePerJob ==
    /\ [](/\ \A i \in DOMAIN fut :
                /\ Cardinality(ProgressLinesOf(i)) = (IF i \in yielded THEN 1 ELSE 0)
                /\ \A k \in ProgressLinesOf(i) :
                      /\ fut[i] = "finished"
                      /\ printed[k].status = fres[i][1].status
                      /\ printed[k].status \in Statuses
          /\ \A k \in DOMAIN printed :
                printed[k].kind = "progress" =>
                    \E i \in DOMAIN fut : k \in ProgressLinesOf(i)
          /\ (summary # None \/ reports # <<>>) => yielded = DOMAIN fut)
    /\ [][(\E k \in DOMAIN printed' :
              k \notin DOMAIN printed /\ printed'[k].kind = "progress")
            => (summary = None /\ reports = <<>> /\ summary' = None /\ reports' = <<>>)]_vars

\* C27 witness: the summary has been produced after the progress lines of
\* two jobs, of which the one submitted second has its line first and the
\* two lines show different statuses.
C27_Witness ==
    /\ summary # None
    /\ Len(fut) = 2
    /\ \E k \in ProgressLinesOf(2), l \in ProgressLinesOf(1) :
          k < l /\ printed[k].status # printed[l].status

\* C28: once the runner is constructed its worker bound is the --workers
\* value when that is given and not 0, and otherwise (not given, or 0) the
\* cpu count where that is at most 8 and 8 above, a value between 1 and 8;
\* no later step changes the bound, and it is the size of the pool.
C28_WorkerBound ==
    /\ [](pc # "construct" =>
            /\ workers[1] # 0 => max_workers = workers[1]
            /\ workers[1] = 0 =>
                  /\ max_workers = (IF cpu_count[1] <= 8 THEN cpu_count[1] ELSE 8)
                  /\ max_workers >= 1 /\ max_workers <= 8
            /\ PoolSize = max_workers)
    /\ [][pc # "construct" => max_workers' = max_workers]_vars

\* C28 witness: a run without a --workers value on a machine of nine
\* processors has run its two jobs and exited with a bound of 8.
C28_Witness ==
    /\ pc = "exited"
    /\ workers = Some(0)
    /\ cpu_count = Some(9)
    /\ max_workers = 8
    /\ Len(self_results) = 2

\* The step is one of the coordinating thread collecting the future i.
CollectStep(i) ==
    /\ pc = "collect"
    /\ i \in DOMAIN fut \ yielded
    /\ yielded' = yielded \cup {i}

\* C29: the list of results changes only in a step of the coordinating
\* thread, which appends the result held by the finished future it collects;
\* a worker's return changes the result of its own future and nothing of
\* the list or of another future; so, whatever the interleaving, the list
\* holds exactly the results of the futures collected, one each, as the
\* workers returned them.
C29_ResultsOnlyFromCollector ==
    /\ [][results' # results =>
            \E i \in DOMAIN fut :
                /\ CollectStep(i)
                /\ fut[i] = "finished"
                /\ results' = Append(results, fres[i][1])
                /\ fres' = fres]_vars
    /\ [][fres' # fres =>
            /\ results' = results /\ self_results' = self_results
            /\ \/ (Len(fres') = Len(fres) + 1 /\ fres'[Len(fres')] = None)
               \/ \E i \in DOMAIN fut :
                     /\ fut[i] = "running"
                     /\ fres[i] = None /\ fres'[i] # None
                     /\ \A j \in DOMAIN fres \ {i} : fres'[j] = fres[j]]_vars
    /\ [](pc = "collect" =>
            /\ Len(results) = Cardinality(yielded)
            /\ \A i \in yielded : \E k \in DOMAIN results : results[k] = fres[i][1]
            /\ \A k \in DOMAIN results : \E i \in yielded : results[k] = fres[i][1])

\* C29 witness: two workers have returned different results and the
\* coordinating thread has collected both, the second job's first.
C29_Witness ==
    /\ pc = "collect"
    /\ yielded = {1, 2}
    /\ fres[1] # fres[2]
    /\ results = <<fres[2][1], fres[1][1]>>

\* C30: the result a future holds, an entry of the list of results and an
\* entry of self.results are never changed once they are there (status,
\* duration, log file and diagnostic alike): the lists only grow at their
\* end and self.results is assigned once; and when the report is written,
\* the status of every entry of the document is the status of the result,
\* the counts of the summary are the counts of the statuses in the document,
\* and the suite succeeds exactly when every status in the document is PASS.
C30_ResultsFinal ==
    /\ [][/\ \A i \in DOMAIN fres : fres[i] # None => fres'[i] = fres[i]
          /\ \A k \in DOMAIN results : k \in DOMAIN results' /\ results'[k] = results[k]
          /\ self_results # <<>> => self_results' = self_results
          /\ self_results' # self_results => self_results' = results]_vars
    /\ [](reports # <<>> =>
            LET doc == reports[Len(reports)].results
            IN  /\ Len(doc) = Len(self_results)
                /\ \A k \in DOMAIN doc :
                      /\ doc[k].status = self_results[k].status
                      /\ doc[k].duration = self_results[k].duration
                      /\ doc[k].log_file = self_results[k].log_file
                      /\ doc[k].error_message = self_results[k].error_message
                      /\ \E i \in DOMAIN fres : fres[i] = Some(self_results[k])
                /\ \A st \in Statuses :
                      summary[1].status_counts[st]
                          = Cardinality({k \in DOMAIN doc : doc[k].status = st})
                /\ success # None =>
                      success = Some(\A k \in DOMAIN doc : doc[k].status = "PASS"))

\* C30 witness: main has exited after a report with a TIMEOUT and a FAIL
\* result, the latter with a diagnostic.
C30_Witness ==
    /\ pc = "exited"
    /\ reports # <<>>
    /\ \E k, l \in DOMAIN self_results :
          /\ self_results[k].status = "TIMEOUT"
          /\ self_results[l].status = "FAIL"
          /\ self_results[l].error_message \notin {None, Some("")}

\* C31: once main is past generation, no step (discovery, the pool and its
\* workers, collection, summary, report, verdict) creates or deletes a
\* category directory or a configuration file or changes a line of one; and
\* the only write of the runner itself is that of the report, made in the
\* step that saves it, at a place that is not a configuration file's.
C31_ArtifactsUntouched ==
    /\ [][pc \notin {"main", "generate"} =>
            (dirs' = dirs /\ files' = files /\ contents' = contents)]_vars
    /\ [][reports' # reports =>
            (pc = "save" /\ Len(reports') = Len(reports) + 1)]_vars
    /\ [](~(ReportLocation.dir \in Subdirs /\ IsArtifactName(ReportLocation.name)))

\* C31 witness: main has exited after running two jobs on generated
\* configuration files and writing its report.
C31_Witness ==
    /\ pc = "exited"
    /\ Len(reports) = 1
    /\ Len(self_results) >= 2
    /\ \A i \in DOMAIN all_test_files :
          LET f == all_test_files[i][1]
          IN  f.id \in files[f.dir] /\ contents[f.dir][f.id] = Render(f.dir, f.id)

RECURSIVE LastSpace(_, _)
\* The position of the last space among the first k characters of s, or 0.
LastSpace(s, k) ==
    IF k = 0 THEN 0
    ELSE IF SubSeq(s, k, k) = " " THEN k ELSE LastSpace(s, k - 1)

LastWord(s) == SubSeq(s, LastSpace(s, Len(s)) + 1, Len(s))
StartsWith(s, p) == Len(s) >= Len(p) /\ SubSeq(s, 1, Len(p)) = p

\* The positions of the lines of a section of a text: those after its
\* header and before the next header.
SectionOf(text, header) ==
    {k \in DOMAIN text :
        \E h \in DOMAIN text :
            /\ text[h] = header /\ h < k
            /\ \A j \in (h + 1)..k : ~StartsWith(text[j], "[")}

\* The files the source-load directives of the [script] section load, and
\* the files the [files] section lists.
LoadedBy(text) ==
    {LastWord(text[k]) :
        k \in {j \in SectionOf(text, "[script]") : StartsWith(text[j], "read_verilog ")}}
ListedIn(text) == {text[k] : k \in SectionOf(text, "[files]")}

C33_RecordedNotRunning ==
    \A i \in DOMAIN fut :
        (\/ fres[i] # None
         \/ ResultsOf(results, i) # {}
         \/ ResultsOf(self_results, i) # {}) =>
            /\ fres[i] # None
            /\ proc[i] # "running"
            /\ fres[i][1].status \in Statuses
            /\ fres[i][1].status # "ERROR" => proc[i] \in {"exited", "killed"}
            /\ fres[i][1].status = "TIMEOUT" => proc[i] = "killed"
            /\ fres[i][1].status = "ERROR" => proc[i] = "failed"

\* C33 witness: the first job was killed at its deadline and its TIMEOUT
\* result is in the list while the process of the second job still runs
\* and has no result anywhere.
C33_Witness ==
    /\ pc = "collect"
    /\ Len(fut) = 2
    /\ proc[1] = "killed" /\ proc[2] = "running"
    /\ Len(results) = 1 /\ results[1].status = "TIMEOUT"
    /\ fres[2] = None

\* C34: the TestResult run_single_test returns has no diagnostic exactly
\* when its status is PASS; a FAIL, TIMEOUT or ERROR result has one, which
\* for a FAIL is the empty string when the process printed nothing.
C34_DiagnosticIffNotPass ==
    \A i \in DOMAIN fres :
        fres[i] # None =>
            LET r == fres[i][1]
            IN  /\ r.status \in Statuses
                /\ r.error_message = None <=> r.status = "PASS"
                /\ r.status # "PASS" => Len(r.error_message) = 1
                /\ (r.status = "FAIL" /\ beh[i].stdout = "" /\ beh[i].stderr = "")
                      => r.error_message = Some("")

\* C34 witness: a process that printed nothing has exited with a code that
\* is not 0 and its job is a FAIL with the empty string for a diagnostic.
C34_Witness ==
    /\ fres[1] # None
    /\ fres[1][1].status = "FAIL"
    /\ fres[1][1].error_message = Some("")

\* C35: with --generate-only, main never gets past the generation step: no
\* runner is constructed, nothing is discovered or submitted, no summary or
\* report is produced; and when the formal directory exists and the
\* generation step did not raise, main exits with code 0, whatever files
\* there were before and whatever categories were selected.
C35_GenerateOnly ==
    generate_only =>
        /\ pc \in {"generate", "exited"}
        /\ all_test_files = <<>> /\ fut = <<>> /\ launches = <<>>
        /\ summary = None /\ reports = <<>> /\ success = None
        /\ (pc = "exited" /\ formal_dir_exists /\ ~GenerationRaised) =>
              exit_code = Some(0)

\* C35 witness: main has exited with code 0 from a --generate-only run with
\* a category selected, in a directory that holds every configuration file.
C35_Witness ==
    /\ generate_only
    /\ pc = "exited"
    /\ exit_code = Some(0)
    /\ categories = {"system"}
    /\ \A s \in Subdirs : s \in dirs /\ files[s] = Catalog(s)

\* C36: when the generation step has raised (the generator could not be
\* imported, or raised), main is at its exit with code 1, and no runner was
\* constructed, nothing discovered or submitted and no summary or report
\* produced; and when the formal directory does not exist main goes from
\* its start straight to its exit with code 1: it never enters the
\* generation step, and no directory or file is created.
C36_GenerationFailure ==
    /\ [](GenerationRaised =>
            /\ pc = "exited" /\ exit_code = Some(1)
            /\ max_workers = 0
            /\ all_test_files = <<>> /\ fut = <<>> /\ launches = <<>>
            /\ summary = None /\ reports = <<>> /\ success = None)
    /\ [](~formal_dir_exists =>
            /\ pc \in {"main", "exited"}
            /\ pc = "exited" =>
                  /\ exit_code = Some(1)
                  /\ ~GenerationRaised
                  /\ all_test_files = <<>> /\ fut = <<>> /\ reports = <<>>)
    /\ [][~formal_dir_exists =>
            (dirs' = dirs /\ files' = files /\ contents' = contents)]_vars

\* C36 witness: main has exited with code 1 after the generation step
\* raised in a run without --generate-only, in a formal directory that has
\* the configuration files of the system checks.
C36_Witness ==
    /\ pc = "exited"
    /\ GenerationRaised
    /\ ~generate_only
    /\ exit_code = Some(1)
    /\ files["system_checks"] # {}

\* The units discovery returned for a category.
UnitsOf(c) ==
    {all_test_files[k][1] : k \in {n \in DOMAIN all_test_files : all_test_files[n][2] = c}}

\* The keys of a whole table.
IdsOf(c) ==
    CASE c = "instructions" -> InstructionIds
      [] c = "system" -> SystemCheckIds
      [] c = "integration" -> IntegrationCheckIds

\* C37: discovery over the three categories after a run of the generator in
\* which no write raised returns exactly one unit for every catalog entry
\* and no other, each under the category of its table and with the name
\* verify_<id>; in any case it returns no unit, and no error, for a category
\* whose directory does not exist; and the whole tables have 37, 11 and 3
\* keys, which give as many distinct file names.
C37_GenerateDiscoverRoundTrip ==
    pc = "gen_discovered" =>
        /\ \A c \in Categories :
              /\ Subdir(c) \notin dirs => UnitsOf(c) = {}
              /\ \A f \in UnitsOf(c) : f.dir = Subdir(c) /\ f.id \in files[f.dir]
        /\ \A k, l \in DOMAIN all_test_files :
              all_test_files[k] = all_test_files[l] => k = l
        /\ (GenDone = Len(GenOrder) /\ GenFailed = {}) =>
              /\ Len(all_test_files) = Len(GenOrder)
              /\ \A c \in Categories :
                    /\ {Stem(f) : f \in UnitsOf(c)}
                          = {"verify_" \o id : id \in Catalog(Subdir(c))}
                    /\ Cardinality(UnitsOf(c)) = Cardinality(Catalog(Subdir(c)))
        /\ Len(InstructionIds) = 37 /\ Len(SystemCheckIds) = 11
        /\ Len(IntegrationCheckIds) = 3
        /\ \A c \in Categories :
              /\ Cardinality({ConfigFileName(IdsOf(c)[k]) : k \in DOMAIN IdsOf(c)})
                    = Len(IdsOf(c))
              /\ \A k \in DOMAIN IdsOf(c) :
                    /\ IsArtifactName(ConfigFileName(IdsOf(c)[k]))
                    /\ ArtifactId(ConfigFileName(IdsOf(c)[k])) = IdsOf(c)[k]
              /\ Catalog(Subdir(c)) \subseteq Range(IdsOf(c))

\* C37 witness: discovery after a run of the generator without an error
\* has returned the four units of the catalog.
C37_Witness ==
    /\ pc = "gen_discovered"
    /\ GenDone = Len(GenOrder)
    /\ GenFailed = {}
    /\ Len(all_test_files) = 4
    /\ all_test_files[4] = <<TestFile("integration", "rv32i"), "integration">>

\* C38: generate_summary_report raises no ZeroDivisionError and no KeyError:
\* for an empty list it returns the fixed text and computes no percentage,
\* average, speedup, fastest or slowest; otherwise the average is a ratio,
\* the speedup is N/A exactly when the wall time is 0 and a ratio when it
\* is positive, every category of the breakdown has a result, and every
\* status counted is one of the four keys of status_counts.
C38_SummaryNeverRaises ==
    summary # None =>
        /\ self_results = <<>> =>
              /\ summary[1].text = "No test results available."
              /\ DOMAIN summary[1] \cap {"speedup", "average", "category_stats",
                                         "fastest", "slowest"} = {}
        /\ self_results # <<>> =>
              /\ summary[1].average.kind = "ratio"
              /\ summary[1].speedup.kind \in {"ratio", "N/A"}
              /\ summary[1].speedup.kind = "N/A" <=> summary[1].wall_time = 0
              /\ \A k \in DOMAIN summary[1].category_stats :
                    summary[1].category_stats[k].total > 0
        /\ DOMAIN summary[1].status_counts = {"PASS", "FAIL", "TIMEOUT", "ERROR"}
        /\ \A k \in DOMAIN self_results :
              self_results[k].status \in DOMAIN summary[1].status_counts

\* C38 witness: the summary of two results, one of them not a PASS, made
\* with a wall time of 0, gives the speedup as N/A.
C38_Witness ==
    /\ summary # None
    /\ Len(self_results) = 2
    /\ self_results[1].status = "PASS" /\ self_results[2].status = "TIMEOUT"
    /\ summary[1].wall_time = 0
    /\ summary[1].speedup.kind = "N/A"

\* The positions of the spaces of s, with the positions before its first
\* and after its last character.
Spaces(s) ==
    {k \in 1..Len(s) : SubSeq(s, k, k) = " "} \cup {0, Len(s) + 1}

\* The words of s: the maximal runs of characters other than the space.
Words(s) ==
    {SubSeq(s, p[1] + 1, p[2] - 1) :
        p \in {q \in Spaces(s) \X Spaces(s) :
                  /\ q[1] + 1 < q[2]
                  /\ \A c \in Spaces(s) : ~(q[1] < c /\ c < q[2])}}

\* The defines a read_verilog line carries: its words that begin with -D.
DefinesOfLine(line) == {w \in Words(line) : StartsWith(w, "-D")}

\* The positions of the read_verilog lines of the [script] section of a
\* text, and those of them that load a design file (no -sv option).
LoadLines(text) ==
    {k \in SectionOf(text, "[script]") : StartsWith(text[k], "read_verilog ")}
PlainLoadLines(text) ==
    {k \in LoadLines(text) : ~StartsWith(text[k], "read_verilog -sv ")}

\* In every instruction file written, every read_verilog line carries the
\* define RISCV_FORMAL_INSN_MODEL=rvfi_insn_<id> with the id of the file
\* name verify_<id>.sby.
InsnModelBound ==
    pc = "gen_returned" =>
        \A id \in Catalog("instructions") :
            <<"instructions", id>> \notin GenFailed =>
                LET text == contents["instructions"][id]
                IN  /\ LoadLines(text) # {}
                    /\ \A k \in LoadLines(text) :
                          ("-DRISCV_FORMAL_INSN_MODEL=rvfi_insn_" \o id)
                              \in DefinesOfLine(text[k])

\* In every instruction file written, the read_verilog lines of the design
\* files all carry the same set of defines.
PlainDefinesUniform ==
    pc = "gen_returned" =>
        \A id \in Catalog("instructions") :
            <<"instructions", id>> \notin GenFailed =>
                LET text == contents["instructions"][id]
                IN  \A j, k \in PlainLoadLines(text) :
                        DefinesOfLine(text[j]) = DefinesOfLine(text[k])

\* C39: in every instruction file the generator has written, the
\* read_verilog lines of the design files all carry one identical set of
\* defines, and every read_verilog line carries the define
\* RISCV_FORMAL_INSN_MODEL=rvfi_insn_<id> with the id that names the file.
\* The generator does not satisfy the first half: the line of
\* pipeline_stages/IF_ID.v has no -DRISCV_FORMAL_NRET=1.
C39_UniformDefinesAndBinding == PlainDefinesUniform /\ InsnModelBound

====
